---- MODULE Spec2Model ----
(***************************************************************************)
(* Model of the MateriaJS binding engine (client mode): the Store with     *)
(* path-addressed access (get/set/update/push/pushMany/setInArray/pull/    *)
(* destroy), the handler and trigger registries, and the asynchronous      *)
(* handler invocation (#handle) against a small DOM.                       *)
(*                                                                         *)
(* JavaScript values are tagged records [t, v]:                            *)
(*   "str"/"num"/"bool"/"null"/"undef" scalars, "obj" (v: own properties)  *)
(*   and "arr" (v: own properties, including "length" and index keys, so   *)
(*   holes are absent index keys).  Property lookup through the prototype  *)
(*   chain is limited to "length" of strings and arrays.                   *)
(* A binding string is the sequence of its segments, each segment written  *)
(* ".key" (br = FALSE) or "[key]" (br = TRUE); two binding strings are     *)
(* equal iff these sequences are equal, and split() forgets br.            *)
(* Values passed to the API are fresh literals (no aliasing with the       *)
(* Store from outside the engine).                                         *)
(***************************************************************************)
EXTENDS Integers, Sequences, FiniteSets, TLC

\* ---------------------------------------------------------------- bounds
MaxOps == 2         \* data-API calls per behaviour
MaxArrLen == 3      \* longest array the API calls may build

\* ------------------------------------------------------------- JS values
Str(s) == [t |-> "str", v |-> s]
Num(n) == [t |-> "num", v |-> n]
Bool(b) == [t |-> "bool", v |-> b]
Null == [t |-> "null", v |-> 0]
Undef == [t |-> "undef", v |-> 0]
Fn == [t |-> "fn", v |-> 0]
NoProps == [k \in {} |-> Undef]
Obj(f) == [t |-> "obj", v |-> f]
EmptyObj == Obj(NoProps)

\* the canonical decimal strings of the array indices 0, 1, 2, ...
IndexKeys == <<"0", "1", "2", "3", "4", "5">>
IsDigits(k) == \E i \in 1..Len(IndexKeys) : IndexKeys[i] = k
ParseInt(k) == (CHOOSE i \in 1..Len(IndexKeys) : IndexKeys[i] = k) - 1
IndexKey(n) == IndexKeys[n + 1]

Put(f, k, x) == [j \in DOMAIN f \cup {k} |-> IF j = k THEN x ELSE f[j]]
Drop(f, k) == [j \in DOMAIN f \ {k} |-> f[j]]

\* an array literal [s[1], ..., s[n]]
Arr(s) ==
  [t |-> "arr",
   v |-> [k \in {IndexKey(i - 1) : i \in 1..Len(s)} \cup {"length"} |->
            IF k = "length" THEN Num(Len(s)) ELSE s[ParseInt(k) + 1]]]
ArrLen(a) == a.v["length"].v

\* !x
Falsy(x) ==
  \/ x.t \in {"undef", "null"}
  \/ x.t = "str" /\ x.v = ""
  \/ x.t = "num" /\ x.v = 0
  \/ x.t = "bool" /\ x.v = FALSE
\* typeof x === "object"
TypeofObject(x) == x.t \in {"obj", "arr", "null"}
IsArray(x) == x.t = "arr"

\* x[k] for x neither null nor undefined (the strings of the model have at
\* most one character, so the character at an index in range is the string)
Prop(x, k) ==
  CASE x.t \in {"obj", "arr"} -> IF k \in DOMAIN x.v THEN x.v[k] ELSE Undef
    [] x.t = "str" ->
         IF k = "length" THEN Num(Len(x.v))
         ELSE IF IsDigits(k) /\ ParseInt(k) < Len(x.v) THEN x
         ELSE Undef
    [] OTHER -> Undef

\* x[k] = y for a container x (arrays grow their length on index keys)
Assign(x, k, y) ==
  IF x.t = "arr" /\ IsDigits(k) /\ ParseInt(k) >= ArrLen(x)
    THEN [x EXCEPT !.v = Put(Put(x.v, k, y), "length", Num(ParseInt(k) + 1))]
    ELSE [x EXCEPT !.v = Put(x.v, k, y)]

\* a === b (containers are compared by reference: a fresh literal never
\* equals a stored container)
StrictEq(a, b) == a.t \notin {"obj", "arr"} /\ a = b

\* --------------------------------------------------------------- bindings
Seg(k) == [k |-> k, br |-> FALSE]
Idx(k) == [k |-> k, br |-> TRUE]
\* binding.split(/[\.\[\]]/).filter(Boolean)
Split(binding) == [i \in 1..Len(binding) |-> binding[i].k]

\* -------------------------------------------------------------------- get
DefaultType == Str("")

GetStep(acc, part) ==
  IF acc.t \in {"null", "undef"} THEN DefaultType
  ELSE IF IsDigits(part)
    THEN IF ~IsArray(acc) \/ Prop(acc, part).t = "undef"
           THEN DefaultType ELSE Prop(acc, part)
  ELSE IF Prop(acc, part).t = "undef" THEN DefaultType ELSE Prop(acc, part)

RECURSIVE Reduce(_, _)
Reduce(acc, parts) ==
  IF parts = <<>> THEN acc ELSE Reduce(GetStep(acc, Head(parts)), Tail(parts))

Get(d, binding) == Reduce(d, Split(binding))

\* -------------------------------------------------------------------- set
Fail == [t |-> "fail", v |-> 0]
Thrown == [t |-> "throw", v |-> 0]

RECURSIVE SetRec(_, _, _)
\* mutant: every intermediate key is overwritten with a fresh object
SetRecFresh(target, keys, value) ==
  IF Len(keys) = 1 THEN Assign(target, Head(keys), value)
  ELSE Assign(target, Head(keys), SetRec(EmptyObj, Tail(keys), value))

\* the traversal loop of set(): the value of the container `target` after
\* the assignment, or Fail when an intermediate key holds a truthy
\* non-object (nothing has been assigned before that point)
SetRec(target, keys, value) ==
  LET key == Head(keys) IN
  IF Len(keys) = 1 THEN Assign(target, key, value)
  ELSE LET cur == Prop(target, key) IN
    IF Falsy(cur)
      THEN Assign(target, key, SetRec(EmptyObj, Tail(keys), value))
    ELSE IF ~TypeofObject(cur) THEN Fail
    ELSE LET r == SetRec(cur, Tail(keys), value) IN
         IF r.t = "fail" THEN Fail ELSE Assign(target, key, r)

\* set(binding, value) on the Store d, without the notification:
\* err says whether console.error was called, d is the Store afterwards
SetData(d, binding, value) ==
  IF binding = <<>> THEN [err |-> "error", d |-> d]
  ELSE IF value.t = "undef" THEN [err |-> "error", d |-> d]
  ELSE LET r == SetRec(d, Split(binding), value) IN
       IF r.t = "fail" THEN [err |-> "error", d |-> d]
       ELSE [err |-> "none", d |-> r]

\* ----------------------------------------------------------------- arrays
\* the value found by get() was reached through own properties of
\* containers: replace it in place
RECURSIVE ReplaceAt(_, _, _)
ReplaceAt(node, keys, x) ==
  IF keys = <<>> THEN x
  ELSE [node EXCEPT !.v[Head(keys)] = ReplaceAt(node.v[Head(keys)], Tail(keys), x)]

\* target.push(x)
ArrPush(a, x) == Assign(a, IndexKey(ArrLen(a)), x)

RECURSIVE ArrPushAll(_, _)
ArrPushAll(a, xs) ==
  IF xs = <<>> THEN a ELSE ArrPushAll(ArrPush(a, Head(xs)), Tail(xs))

\* queryFunction(query)(element): "yes", "no", or "throw" when element[key]
\* is evaluated on null or undefined
QueryMatch(element, query) ==
  IF DOMAIN query.v = {} THEN "yes"
  ELSE IF element.t \in {"undef", "null"} THEN "throw"
  ELSE IF \A key \in DOMAIN query.v : StrictEq(Prop(element, key), query.v[key])
    THEN "yes" ELSE "no"

\* target.findIndex(queryFunction(query)) from index i on: the index, -1,
\* or -2 when the predicate throws
RECURSIVE FindIndexFrom(_, _, _)
FindIndexFrom(a, query, i) ==
  IF i >= ArrLen(a) THEN -1
  ELSE LET m == QueryMatch(Prop(a, IndexKey(i)), query) IN
       IF m = "throw" THEN -2
       ELSE IF m = "yes" THEN i
       ELSE FindIndexFrom(a, query, i + 1)
FindIndex(a, query) == FindIndexFrom(a, query, 0)

\* target.splice(i, 1)
Splice(a, i) ==
  LET keep == {k \in DOMAIN a.v : ~IsDigits(k) \/ ParseInt(k) < i}
      moved == {IndexKey(ParseInt(k) - 1) : k \in {j \in DOMAIN a.v : IsDigits(j) /\ ParseInt(j) > i}}
  IN [t |-> "arr",
      v |-> [k \in keep \cup moved |->
               IF k = "length" THEN Num(ArrLen(a) - 1)
               ELSE IF k \in moved THEN a.v[IndexKey(ParseInt(k) + 1)]
               ELSE a.v[k]]]

\* ---------------------------------------------------------------- destroy
\* delete target[key] in strict mode
DeleteProp(target, key) ==
  CASE target.t \in {"undef", "null"} -> Thrown
    [] target.t = "obj" -> [target EXCEPT !.v = Drop(target.v, key)]
    [] target.t = "arr" ->
         IF key = "length" THEN Thrown
         ELSE [target EXCEPT !.v = Drop(target.v, key)]
    [] target.t = "str" ->
         IF key = "length" \/ (IsDigits(key) /\ ParseInt(key) < Len(target.v))
           THEN Thrown ELSE target
    [] OTHER -> target

\* deleteData(target, index): the value of target afterwards, or Thrown
RECURSIVE DeleteData(_, _)
DeleteData(target, keys) ==
  LET key == Head(keys) IN
  IF Len(keys) = 1 THEN DeleteProp(target, key)
  ELSE IF target.t \in {"undef", "null"} THEN Thrown
  ELSE LET r == DeleteData(Prop(target, key), Tail(keys)) IN
       IF r.t = "throw" THEN Thrown
       ELSE IF target.t \in {"obj", "arr"} /\ key \in DOMAIN target.v
         THEN [target EXCEPT !.v[key] = r]
       ELSE target

\* ------------------------------------------------------------------ state
VARIABLES
  data,       \* #data: the Store (an "obj" value)
  handlers,   \* #handlers: binding -> sequence of handler ids
  triggers,   \* #triggers: binding -> sequence of [binding, handler]
  hrec,       \* the handler objects: id -> [element, property, func]
  rendered,   \* the nodes that have been created
  parent,     \* parentNode of every node
  text,       \* what was last applied to each element's bound property
  pending,    \* #handle calls suspended at their await
  decl,       \* the template each element was rendered from
  last,       \* the last step: the call, its arguments and its outcome
  nops,       \* data-API calls made so far
  elementHandlerMap,  \* #elementHandlerMap: element -> set of handler ids
  delegate,   \* #delegate: event kind -> sequence of [target, func, id]
  listeners,  \* the native listeners added to the document, in order
  disabled,   \* the elements whose disabled property is true
  observing,  \* #observingMutations (the MutationObserver on the body)
  gcTimer,    \* the timer of #debouncedGarbageCollect is armed
  edecl,      \* the event template each live node was rendered from
  importCache,  \* #importCache holds the module of the locator
  attempts,   \* the number of import(path) calls made for the locator
  hpipe,      \* what each handler's pipe holds under its key
  idleq,      \* #pendingPipeImports: the handlers whose pipe is queued
  loading,    \* the queued pipes whose import is in flight
  stashedLoadEvent,  \* #stashedLoadEvent
  polls,      \* the running setInterval polls, each with its load record
  loadCalls,  \* how often the load function of each node was called
  engine,     \* the server engine instances: Store and tables of each
  pass,       \* the render passes of the view-engine adapter
  response,   \* what each pass serialized into its response
  odata,      \* objekt.js: the target of the data Proxy (an "obj" value)
  ohandlers,  \* objekt.js: handlers, binding -> sequence of elements
  oparent,    \* objekt.js: parentNode of the elements it rendered
  otext,      \* objekt.js: textContent of the elements it rendered
  endpoints,  \* objekt.js: the hooks that have an endpoint
  fromServer, \* objekt.js: _fromServer
  syncTimeouts,  \* objekt.js: the bindings whose sync timer is armed
  requests,   \* objekt.js: the bindings whose fetch is in flight
  olast,      \* objekt.js: the last step and its outcome
  onops       \* objekt.js: calls made so far

\* the state of event delegation
evars == <<delegate, listeners, disabled, observing, gcTimer, edecl>>

\* the state of import resolution
ivars == <<importCache, attempts, hpipe, idleq, loading>>

\* the state of load polling
lvars == <<stashedLoadEvent, polls, loadCalls>>

\* the state of the server-side render passes
svars == <<engine, pass, response>>

\* the state of the client engine
cvars == <<data, handlers, triggers, hrec, rendered, parent, text, pending,
           decl, last, nops, elementHandlerMap, evars, ivars, lvars>>

\* the state of the earlier generation of the engine, src/objekt.js
ovars == <<odata, ohandlers, oparent, otext, endpoints, fromServer, syncTimeouts,
           requests, olast, onops>>

vars == <<cvars, svars, ovars>>

\* ------------------------------------------------------------------- DOM
NoNode == "none"
\* the elements that the children handler of a list creates: the child and
\* the grandchild of each of its renders; a handler runs once per Store
\* write, so MaxOps + 1 renders are enough
ChildNames == <<"c1", "c2", "c3", "c4", "c5">>
GrandNames == <<"g1", "g2", "g3", "g4", "g5">>
MaxGen == MaxOps + 1
ListNodes == {ChildNames[k] : k \in 1..MaxGen} \cup {GrandNames[k] : k \in 1..MaxGen}
Elements == {"e1", "e2"} \cup ListNodes
Nodes == {"html", "head", "body", "root"} \cup Elements
\* the handler objects: the one made for each element and, after hydration,
\* the copy of the handler of e1 that JSON.parse made for its trigger record
HandlerIds == Elements \cup {"t1"}
NoHandler == [element |-> NoNode, property |-> "none", func |-> "none"]

RECURSIVE Contains(_, _, _)
\* anc.contains(n) under the parent map par
Contains(par, anc, n) ==
  \/ n = anc
  \/ n # NoNode /\ par[n] # NoNode /\ Contains(par, anc, par[n])

\* document.querySelector("[data-handler-id='id']"): every element carries
\* its own id, and only nodes in the document are found
QuerySelector(par, id) ==
  IF id \in Elements /\ Contains(par, "html", id) THEN id ELSE NoNode

\* -------------------------------------------------------------- notify
EmptyMap == [k \in {} |-> <<>>]
At(map, b) == IF b \in DOMAIN map THEN map[b] ELSE <<>>

\* mutant: the ancestor fallback of the earlier engine generation
RECURSIVE CheckHandlersAncestor(_, _)
CheckHandlersAncestor(hmap, binding) ==
  IF binding \in DOMAIN hmap
    THEN [i \in 1..Len(hmap[binding]) |-> [binding |-> binding, h |-> hmap[binding][i]]]
  ELSE IF Len(binding) > 1
    THEN CheckHandlersAncestor(hmap, SubSeq(binding, 1, Len(binding) - 1))
  ELSE <<>>

\* checkHandlers(binding): the #handle calls it starts
CheckHandlers(hmap, binding) ==
  [i \in 1..Len(At(hmap, binding)) |->
     [binding |-> binding, h |-> At(hmap, binding)[i]]]

\* mutant: the handler is re-run against the trigger path
TriggerCallOnTriggerPath(binding, trigger) ==
  [binding |-> binding, h |-> trigger.handler]

\* the #handle call started for one trigger record
TriggerCall(binding, trigger) ==
  [binding |-> trigger.binding, h |-> trigger.handler]

\* checkTriggers(binding)
CheckTriggers(tmap, binding) ==
  [i \in 1..Len(At(tmap, binding)) |-> TriggerCall(binding, At(tmap, binding)[i])]

\* mutant: the trigger records are not consulted
HandleBindingUpdateHandlersOnly(hmap, tmap, binding) ==
  CheckHandlers(hmap, binding)

\* #handleBindingUpdate(binding) in client mode
HandleBindingUpdate(hmap, tmap, binding) ==
  CheckHandlers(hmap, binding) \o CheckTriggers(tmap, binding)

Notify(binding) == HandleBindingUpdate(handlers, triggers, binding)

\* ------------------------------------------------------------ delegation
\* what a delegate record holds as its target: an Element, the document or
\* null (NodeRef), or a string (IdRef): a data-delegate-id or "document"
Document == "document"
NodeRef(n) == [ref |-> "node", n |-> n]
IdRef(id) == [ref |-> "id", n |-> id]

\* the event keys of the templates; KeyOf: event.replace("keydown:", "")
KeydownKinds == {"keydown:Enter", "keydown:Escape"}
KeyOf(event) == IF event = "keydown:Enter" THEN "Enter" ELSE "Escape"
KeydownKind(key) == IF key = "Enter" THEN "keydown:Enter" ELSE "keydown:Escape"

\* the functions of the model: "fn" a function, "fnThrows" a function that
\* throws, "src" the text of a function as (args) => ..., "srcBare" the
\* text of an arrow function with a bare parameter, arg => ...
IsString(func) == func \in {"src", "srcBare"}
\* /^\s*(function\s*\(|\(\s*[^\)]*\)\s*=>)/.test(str)
IsStringifiedFunction(func) == func = "src"

\* #createEventListener(event): the listener added to the document, as
\* [type, key]; key "" stands for a listener that does not filter on e.key
CreateEventListener(event) ==
  IF event \in KeydownKinds
    THEN [type |-> "keydown", key |-> KeyOf(event)]
    ELSE [type |-> event, key |-> ""]

\* #stashedLoadEvent = null
\* what a template adds to an event key: a pipe, and the key being listed in
\* the template's preventDefault
NoOpt == [pipe |-> FALSE, preventDefault |-> FALSE]
NoStash == [target |-> NodeRef(NoNode), func |-> "none", id |-> <<>>,
            pipe |-> FALSE, preventDefault |-> FALSE]
\* the end of a client render call: if (this.#stashedLoadEvent) setInterval
StartPoll(ps, stash) == IF stash # NoStash THEN Append(ps, stash) ELSE ps

\* #registerEvent(event, target, pipe, func, preventDefault) in client mode,
\* on [d |-> #delegate, l |-> listeners, s |-> #stashedLoadEvent]; id stands
\* for the identity of the eventData object; a load record is stashed
\* instead of being pushed
RegisterEvent(st, event, target, func, id, opt) ==
  LET fresh == event \notin DOMAIN st.d
      eventData == [target |-> target, func |-> func, id |-> id,
                    pipe |-> opt.pipe, preventDefault |-> opt.preventDefault]
      list == IF event = "load" THEN At(st.d, event)
              ELSE Append(At(st.d, event), eventData)
  IN [d |-> Put(st.d, event, list),
      l |-> IF fresh THEN Append(st.l, CreateEventListener(event)) ELSE st.l,
      s |-> IF event = "load" THEN eventData ELSE st.s]

\* #addEventDelegate(element, event, func, pipe, preventDefault) in client
\* mode
AddEventDelegate(st, element, event, func, id, opt) ==
  IF event = "clickOutside"
    THEN RegisterEvent(st, "click", IdRef(Document), func, id, opt)
    ELSE RegisterEvent(st, event, NodeRef(element), func, id, opt)

\* #getMatchingTarget(event, element): element when it is event.target or
\* one of its ancestors (the document is the last ancestor of every node in
\* the document), else NoNode for false
GetMatchingTarget(par, eventTarget, element) ==
  IF element = NoNode THEN NoNode
  ELSE IF element = Document
    THEN IF Contains(par, "html", eventTarget) THEN Document ELSE NoNode
  ELSE IF Contains(par, element, eventTarget) THEN element ELSE NoNode

\* the body of the for loop of #eventHandler for the record at delegate
\* [kind][i]; es carries #delegate (d), the calls made so far (calls), the
\* console level (err) and whether the loop was left by an exception
EventStep(es, par, dis, eventTarget, kind, i) ==
  IF kind \notin DOMAIN es.d
    \* eventArr.concat(undefined): destructuring undefined throws
    THEN [es EXCEPT !.err = "error", !.stopped = TRUE]
  ELSE
  LET eventObj == es.d[kind][i]
      target == IF eventObj.target.ref = "id"
                  THEN IF eventObj.target.n = Document THEN NodeRef(Document)
                       ELSE NodeRef(QuerySelector(par, eventObj.target.n))
                  ELSE eventObj.target
      d1 == [es.d EXCEPT ![kind][i].target = target]
  IN IF IsString(eventObj.func) /\ ~IsStringifiedFunction(eventObj.func)
       \* #parseStringifiedFunction throws: the outer catch ends the loop
       THEN [es EXCEPT !.d = d1, !.err = "error", !.stopped = TRUE]
     ELSE
     LET func == IF IsString(eventObj.func) THEN "fn" ELSE eventObj.func
         d2 == [d1 EXCEPT ![kind][i].func = func]
         match == GetMatchingTarget(par, eventTarget, target.n)
     IN IF match # NoNode /\ match \notin dis
          \* if (preventDefault) event.preventDefault(), recorded with
          \* whether the handler has awaited before; then the await of
          \* #resolvePipeImports if the record has a pipe, and the call
          THEN [es EXCEPT !.d = d2,
                          !.prevented =
                             IF eventObj.preventDefault
                               THEN Append(@, [id |-> eventObj.id, match |-> match,
                                               late |-> es.suspended])
                               ELSE @,
                          !.suspended = @ \/ eventObj.pipe,
                          !.calls = Append(@, [id |-> eventObj.id, match |-> match]),
                          !.err = IF func = "fnThrows" THEN "error" ELSE @]
          ELSE [es EXCEPT !.d = d2]

RECURSIVE EventLoop(_, _, _, _, _)
\* for (const eventObj of eventArr), eventArr being the positions ps
EventLoop(es, par, dis, eventTarget, ps) ==
  IF ps = <<>> \/ es.stopped THEN es
  ELSE EventLoop(EventStep(es, par, dis, eventTarget, Head(ps)[1], Head(ps)[2]),
                 par, dis, eventTarget, Tail(ps))

Positions(d, kind) == [i \in 1..Len(At(d, kind)) |-> <<kind, i>>]

\* event.which || event.keyCode of a keypress event: 13 is the enter key
EnterCode == "13"
KeyCodes == {EnterCode, "65"}

\* #eventHandler(event) for a click, keydown or keypress event (the templates of the
\* model have no pipe, so the handler runs without suspending)
EventHandler(es, par, dis, type, key, eventTarget) ==
  LET own == Positions(es.d, type)
      ps == IF type = "keydown"
              THEN own \o (IF KeydownKind(key) \in DOMAIN es.d
                             THEN Positions(es.d, KeydownKind(key))
                             ELSE << <<KeydownKind(key), 1>> >>)
            ELSE IF type = "keypress" /\ key = EnterCode
              THEN own \o (IF "click" \in DOMAIN es.d
                             THEN Positions(es.d, "click")
                             ELSE << <<"click", 1>> >>)
              ELSE own
  IN [EventLoop([es EXCEPT !.stopped = FALSE, !.suspended = FALSE],
                par, dis, eventTarget, ps)
        EXCEPT !.stopped = FALSE, !.suspended = FALSE]

RECURSIVE Dispatch(_, _, _, _, _, _, _)
\* the browser delivers the event to the listeners ls of the document in the
\* order in which they were added
Dispatch(es, ls, par, dis, type, key, eventTarget) ==
  IF ls = <<>> THEN es
  ELSE LET l == Head(ls)
           runs == l.type = type /\ (l.key = "" \/ l.key = key)
       IN Dispatch(IF runs THEN EventHandler(es, par, dis, type, key, eventTarget)
                            ELSE es,
                   Tail(ls), par, dis, type, key, eventTarget)

\* #executeCheck(mutation) for a childList record: the body of
\* funcs.forEach for the record at delegate["childList"][i]
CheckStepAt(es, par, mutationTarget, kind, i) ==
  LET funcObj == es.d[kind][i]
      target == IF funcObj.target.ref = "id"
                  THEN NodeRef(QuerySelector(par, funcObj.target.n))
                  ELSE funcObj.target
      d1 == [es.d EXCEPT ![kind][i].target = target]
  IN IF IsString(funcObj.func) /\ ~IsStringifiedFunction(funcObj.func)
       \* the async callback rejects; the other callbacks still run
       THEN [es EXCEPT !.d = d1, !.err = "error"]
     ELSE LET d2 == [d1 EXCEPT ![kind][i].func =
                                 IF IsString(funcObj.func) THEN "fn" ELSE @]
          IN IF mutationTarget = target.n
               THEN [es EXCEPT !.d = d2,
                      !.calls = Append(@, [id |-> funcObj.id, match |-> mutationTarget]),
                      !.err = IF d2[kind][i].func = "fnThrows" THEN "error" ELSE @]
               ELSE [es EXCEPT !.d = d2]

CheckStep(es, par, mutationTarget, i) ==
  CheckStepAt(es, par, mutationTarget, "childList", i)

RECURSIVE ExecuteCheck(_, _, _, _)
ExecuteCheck(es, par, mutationTarget, i) ==
  IF i > Len(At(es.d, "childList")) THEN es
  ELSE ExecuteCheck(CheckStep(es, par, mutationTarget, i), par, mutationTarget, i + 1)

NoCalls(d) == [d |-> d, calls |-> <<>>, err |-> "none", stopped |-> FALSE,
               prevented |-> <<>>, suspended |-> FALSE]

\* the key of #delegate that #executeCheck reads for an attributes record:
\* attributeName ? type + ":" + attributeName : type, and the name of a
\* changed attribute is never empty
AttributeFuncs(attributeName) ==
  IF attributeName # "" THEN "attributes:" \o attributeName ELSE "attributes"

RECURSIVE ExecuteCheckAt(_, _, _, _, _)
\* funcs.forEach of #executeCheck for the list under kind
ExecuteCheckAt(es, par, mutationTarget, kind, i) ==
  IF i > Len(At(es.d, kind)) THEN es
  ELSE ExecuteCheckAt(CheckStepAt(es, par, mutationTarget, kind, i),
                      par, mutationTarget, kind, i + 1)

\* #mutationCallback for one attributes record on mutationTarget, a node
\* under the body
AttributeCallback(d, par, mutationTarget, attributeName) ==
  IF observing /\ Contains(par, "body", mutationTarget)
    THEN ExecuteCheckAt(NoCalls(d), par, mutationTarget,
                        AttributeFuncs(attributeName), 1)
    ELSE NoCalls(d)

\* #mutationCallback for one childList record whose target is
\* mutationTarget, a node under the body: only a record with added nodes is
\* checked; without a running observer nothing is delivered
MutationCallback(d, par, mutationTarget, added) ==
  IF observing /\ added /\ Contains(par, "body", mutationTarget)
    THEN ExecuteCheck(NoCalls(d), par, mutationTarget, 1)
    ELSE NoCalls(d)

\* -------------------------------------------------------- API operations
\* the running outcome of a public call: Store, worst console level,
\* #handle calls started
Start(d) == [d |-> d, err |-> "none", started |-> <<>>]
Failed(st, level) == [st EXCEPT !.err = level]

\* this.set(binding, value) inside a public call
SetOn(st, binding, value) ==
  LET r == SetData(st.d, binding, value) IN
  IF r.err = "none"
    THEN [st EXCEPT !.d = r.d, !.started = st.started \o Notify(binding)]
    ELSE Failed(st, r.err)

SetOp(binding, value) == SetOn(Start(data), binding, value)

\* for (const key in currentData): integer keys first, then the others
KeyOrder == IndexKeys \o <<"a", "b", "c">>
KeysInOrder(obj) == SelectSeq(KeyOrder, LAMBDA k : k \in DOMAIN obj.v)

RECURSIVE UpdateRecursive(_, _, _)
RECURSIVE UpdateKeys(_, _, _, _)
UpdateRecursive(st, currentBinding, currentData) ==
  IF currentData.t # "obj"
    THEN SetOn(st, currentBinding, currentData)
    ELSE UpdateKeys(st, currentBinding, currentData, KeysInOrder(currentData))
UpdateKeys(st, currentBinding, currentData, ks) ==
  IF ks = <<>> THEN st
  ELSE LET newBinding == Append(currentBinding, Seg(Head(ks)))
           value == currentData.v[Head(ks)]
           st2 == IF value.t = "obj"
                    THEN UpdateRecursive(st, newBinding, value)
                    ELSE SetOn(st, newBinding, value)
       IN UpdateKeys(st2, currentBinding, currentData, Tail(ks))

UpdateOp(binding, partial) ==
  IF binding = <<>> THEN Failed(Start(data), "error")
  ELSE IF partial.t \notin {"obj", "arr"} THEN Failed(Start(data), "error")
  ELSE UpdateRecursive(Start(data), binding, partial)

\* the common body of push and pushMany once the arguments are valid
PushValues(binding, values) ==
  LET target == Get(data, binding) IN
  IF target = DefaultType
    THEN LET st == SetOn(Start(data), binding, Arr(<<>>)) IN
         \* target is the fresh array, stored only if the set succeeded
         IF st.err = "none"
           THEN [st EXCEPT !.d = SetRec(data, Split(binding), Arr(values)),
                           !.started = st.started \o Notify(binding)]
           ELSE [st EXCEPT !.started = st.started \o Notify(binding)]
  ELSE IF Falsy(target) THEN Failed(Start(data), "error")
  ELSE IF IsArray(target)
    THEN [Start(data) EXCEPT
            !.d = ReplaceAt(data, Split(binding), ArrPushAll(target, values)),
            !.started = Notify(binding)]
  ELSE Failed(Start(data), "error")

PushOp(binding, value) ==
  IF binding = <<>> \/ value.t = "undef" THEN Failed(Start(data), "error")
  ELSE PushValues(binding, <<value>>)

\* the elements of an array value, for target.push(...values)
Spread(a) == [i \in 1..ArrLen(a) |-> Prop(a, IndexKey(i - 1))]

PushManyOp(binding, values) ==
  IF binding = <<>> \/ ~IsArray(values) THEN Failed(Start(data), "error")
  ELSE PushValues(binding, Spread(values))

SetInArrayOp(binding, query, value) ==
  LET target == Get(data, binding) IN
  IF Falsy(target) \/ ~IsArray(target) THEN Failed(Start(data), "error")
  ELSE LET arrayIndex == FindIndex(target, query) IN
    IF arrayIndex = -2 THEN Failed(Start(data), "throw")
    ELSE LET updatedIndex == IF arrayIndex > -1 THEN arrayIndex ELSE ArrLen(target)
             arr2 == Assign(target, IndexKey(updatedIndex), value)
         IN [Start(data) EXCEPT
               !.d = ReplaceAt(data, Split(binding), arr2),
               !.started = Notify(Append(binding, Idx(IndexKey(updatedIndex))))]

PullOp(binding, query) ==
  LET target == Get(data, binding) IN
  IF Falsy(target) \/ ~IsArray(target) THEN Failed(Start(data), "error")
  ELSE LET arrayIndex == FindIndex(target, query) IN
    IF arrayIndex = -2 THEN Failed(Start(data), "throw")
    ELSE IF arrayIndex > -1
      THEN [Start(data) EXCEPT
              !.d = ReplaceAt(data, Split(binding), Splice(target, arrayIndex)),
              !.started = Notify(binding)]
    ELSE Failed(Start(data), "warn")

\* destroy(binding): [d, err, par, hmap] afterwards
RECURSIVE RemoveBound(_, _)
\* the forEach over the handlers of the binding: each element that
\* querySelector finds and that has a parent is removed from it
RemoveBound(par, hs) ==
  IF hs = <<>> THEN par
  ELSE LET id == hrec[Head(hs)].element
           el == IF id # NoNode THEN QuerySelector(par, id) ELSE NoNode
       IN RemoveBound(IF el # NoNode /\ par[el] # NoNode
                        THEN [par EXCEPT ![el] = NoNode] ELSE par,
                      Tail(hs))

DestroyOp(binding) ==
  LET keys == Split(binding)
      hook == IF keys = <<>> THEN Undef ELSE Prop(data, keys[1])
      del == IF ~Falsy(hook) THEN DeleteData(data, keys) ELSE data
  IN IF del.t = "throw"
       THEN [d |-> data, err |-> "throw", par |-> parent, hmap |-> handlers]
       ELSE [d |-> del, err |-> "none",
             par |-> RemoveBound(parent, At(handlers, binding)),
             hmap |-> Drop(handlers, binding)]

\* ----------------------------------------------------------------- inputs
B_a == <<Seg("a")>>
B_ab == <<Seg("a"), Seg("b")>>
B_abc == <<Seg("a"), Seg("b"), Seg("c")>>
B_a0 == <<Seg("a"), Idx("0")>>
B_a1 == <<Seg("a"), Seg("1")>>
B_alen == <<Seg("a"), Seg("length")>>
B_b == <<Seg("b")>>
T_b == <<Seg("b")>>

Rec1(k, x) == Obj([j \in {k} |-> x])
Rec2(k1, x1, k2, x2) == Obj([j \in {k1, k2} |-> IF j = k1 THEN x1 ELSE x2])

InitData ==
  { EmptyObj,
    Rec1("a", Str("x")),
    Rec1("a", Num(0)),
    Rec1("a", Rec2("b", Str("x"), "c", Str("y"))),
    Rec1("a", Rec1("b", Arr(<<Str("x")>>))),
    Rec1("a", Arr(<<Rec1("a", Num(2)), Rec2("a", Num(1), "b", Str("x")), Rec1("a", Num(1))>>)),
    Rec1("a", Arr(<<Null, Rec1("a", Num(1))>>)) }

SetPaths == {B_a, B_ab, B_abc, B_a0, B_a1}
SetValues == {Str(""), Str("x"), Null, EmptyObj, Rec1("b", Str("y")), Arr(<<>>)}
SetArgs == (SetPaths \X SetValues) \cup {<<B_a, Undef>>, << <<>>, Str("x")>>}

UpdatePaths == {B_a, B_ab, B_a0}
Partials == {EmptyObj, Rec1("b", Str("y")), Rec1("b", Rec1("c", Str("z"))),
             Rec1("b", Arr(<<Str("z")>>))}
UpdateArgs == (UpdatePaths \X Partials) \cup {<<B_a, Str("x")>>, << <<>>, EmptyObj>>}

PushPaths == {B_a, B_ab, B_a0}
PushValuesSet == {Str("x"), Null, Rec1("a", Num(1))}
PushArgs == (PushPaths \X PushValuesSet) \cup {<<B_a, Undef>>, << <<>>, Str("x")>>}
PushManyArgs == ({B_a, B_ab} \X {Arr(<<>>), Arr(<<Str("x"), Str("y")>>)})
                  \cup {<<B_a, Str("x")>>, << <<>>, Arr(<<>>)>>}

ArrayPaths == {B_a, B_ab}
Queries == {EmptyObj, Rec1("a", Num(1)), Rec2("a", Num(1), "b", Str("x"))}
ArrayValues == {Rec1("a", Num(3)), Str("z")}

DestroyPaths == {<<>>, B_a, B_ab, B_abc, B_a0}
GetPaths == {B_a, B_ab, B_abc, B_a0, B_alen, B_b}

\* ---------------------------------------------------------------- actions
\* op: the call; b, x, q: its binding, value and query arguments; err: the
\* console level it reached ("throw": an exception left the call); started:
\* the #handle calls it started; ret: what get returned; for a step of
\* #handle, h: the handler, x: what its evaluator received, wrote: whether
\* the result was applied to a node
\* for an event, t: its target, key: its key, calls: the delegate functions
\* that were called, each with the matched target it received
NoCall == [op |-> "none", b |-> <<>>, x |-> Undef, q |-> Undef, err |-> "none",
           started |-> <<>>, ret |-> Undef, h |-> NoNode, wrote |-> FALSE,
           t |-> NoNode, key |-> "", calls |-> <<>>, prevented |-> <<>>]

Called(op, b, x, q, st) ==
  [NoCall EXCEPT !.op = op, !.b = b, !.x = x, !.q = q, !.err = st.err,
                 !.started = st.started]

\* #resolvePipeImports(pipe) up to its first await, for the #handle calls
\* cs that a public call starts: a pipe that still holds its import string
\* is served from #importCache, or import(path) is called
ImportsStarted(cs) ==
  IF importCache THEN 0
  ELSE Cardinality({i \in 1..Len(cs) : hpipe[cs[i].h] = "import"})
PipesAfterStart(cs) ==
  [h \in HandlerIds |->
     IF importCache /\ hpipe[h] = "import" /\ \E i \in 1..Len(cs) : cs[i].h = h
       THEN "component" ELSE hpipe[h]]

\* a data-API call whose outcome is st
Api(op, b, x, q, st) ==
  /\ nops < MaxOps
  /\ nops' = nops + 1
  /\ data' = st.d
  /\ pending' = pending \o st.started
  /\ last' = Called(op, b, x, q, st)
  /\ attempts' = attempts + ImportsStarted(st.started)
  /\ hpipe' = PipesAfterStart(st.started)
  /\ UNCHANGED <<handlers, triggers, hrec, rendered, parent, text, decl,
                 elementHandlerMap, evars, importCache, idleq, loading, lvars, svars, ovars>>

\* the array at the binding after the call stays within the bound
Fits(b, n) == IsArray(Get(data, b)) => ArrLen(Get(data, b)) + n <= MaxArrLen

Set(b, x) == Api("set", b, x, Undef, SetOp(b, x))
Update(b, partial) == Api("update", b, partial, Undef, UpdateOp(b, partial))
Push(b, x) == Fits(b, 1) /\ Api("push", b, x, Undef, PushOp(b, x))
PushMany(b, xs) ==
  /\ IsArray(xs) => Fits(b, ArrLen(xs))
  /\ Api("pushMany", b, xs, Undef, PushManyOp(b, xs))
SetInArray(b, q, x) == Fits(b, 1) /\ Api("setInArray", b, x, q, SetInArrayOp(b, q, x))
Pull(b, q) == Api("pull", b, Undef, q, PullOp(b, q))

GetCall(b) ==
  /\ nops < MaxOps
  /\ nops' = nops + 1
  /\ last' = [Called("get", b, Undef, Undef, Start(data)) EXCEPT !.ret = Get(data, b)]
  /\ UNCHANGED <<data, handlers, triggers, hrec, rendered, parent, text,
                 pending, decl, elementHandlerMap, evars, ivars, lvars, svars, ovars>>

Destroy(b) ==
  /\ nops < MaxOps
  /\ nops' = nops + 1
  /\ LET r == DestroyOp(b) IN
       /\ data' = r.d
       /\ parent' = r.par
       /\ handlers' = r.hmap
       /\ last' = Called("destroy", b, Undef, Undef, Failed(Start(data), r.err))
  /\ UNCHANGED <<triggers, hrec, rendered, text, pending, decl,
                 elementHandlerMap, evars, ivars, lvars, svars, ovars>>

\* the evaluator of the model's templates: textContent: (value) => value
Evaluate(func, value) == value

\* document.createTextNode(value) in #setTextContent: the data of the text
\* node is the value as a string, "null" for null; the other values of the
\* model stand for their own text
TextNode(value) == IF value = Null THEN Str("null") ELSE value

\* mutant: the value is appended to the content, as #appendChild does
SetTextContentAppend(old, value) ==
  IF old.t = "str" /\ value.t = "str" THEN Str(old.v \o value.v)
  ELSE TextNode(value)
\* #setTextContent(element, value): the content is emptied and the text
\* node of value becomes the only child
SetTextContent(old, value) == TextNode(value)

RECURSIVE RegisterTriggers(_, _, _, _)
\* triggers.forEach in #processFunctionValue
RegisterTriggers(tmap, binding, trigs, h) ==
  IF trigs = <<>> THEN tmap
  ELSE LET triggerBinding == binding \o Head(trigs)
           entry == [binding |-> binding, handler |-> h]
       IN RegisterTriggers(Put(tmap, triggerBinding, Append(At(tmap, triggerBinding), entry)),
                           binding, Tail(trigs), h)

\* render({binding: b, triggers: trigs, textContent: f}) in client mode,
\* creating element e; where = "body": render(template, "body");
\* "detached": the element is returned; "nested": the template is the child
\* of an unbound root template whose element is returned
Render(e, b, trigs, where) ==
  /\ e \notin rendered
  /\ where = "nested" => "root" \notin rendered
  /\ rendered' = rendered \cup {e} \cup (IF where = "nested" THEN {"root"} ELSE {})
  /\ hrec' = [hrec EXCEPT ![e] = [element |-> e, property |-> "textContent", func |-> "value"]]
  /\ handlers' = Put(handlers, b, Append(At(handlers, b), e))
  /\ triggers' = RegisterTriggers(triggers, b, trigs, e)
  /\ decl' = [decl EXCEPT ![e] = [binding |-> b, triggers |-> trigs]]
  /\ LET result == Evaluate("value", Get(data, b)) IN
       /\ text' = IF result # Null THEN [text EXCEPT ![e] = result] ELSE text
       /\ last' = [NoCall EXCEPT !.op = "render", !.b = b, !.h = e,
                                 !.x = Get(data, b), !.wrote = (result # Null)]
  /\ parent' = [parent EXCEPT ![e] = CASE where = "body" -> "body"
                                        [] where = "nested" -> "root"
                                        [] OTHER -> NoNode]
  /\ elementHandlerMap' = [elementHandlerMap EXCEPT ![e] = @ \cup {e}]
  /\ polls' = IF where = "nested"
                THEN StartPoll(StartPoll(polls, stashedLoadEvent), stashedLoadEvent)
                ELSE StartPoll(polls, stashedLoadEvent)
  /\ UNCHANGED <<data, pending, nops, evars, ivars, stashedLoadEvent, loadCalls, svars, ovars>>

\* application code appends the root element that render returned to the
\* body
Insert(n) ==
  /\ n \in rendered
  /\ parent[n] = NoNode
  /\ parent' = [parent EXCEPT ![n] = "body"]
  /\ LET es == MutationCallback(delegate, parent', "body", TRUE) IN
       /\ delegate' = es.d
       /\ gcTimer' = (gcTimer \/ observing)
       /\ last' = [NoCall EXCEPT !.op = "insert", !.t = n, !.calls = es.calls]
  /\ UNCHANGED <<data, handlers, triggers, hrec, rendered, text, pending,
                 decl, nops, elementHandlerMap, listeners, disabled, observing,
                 edecl, ivars, lvars, svars, ovars>>

\* how many times the children of the list have been rendered
Gen(r) == Cardinality({k \in 1..MaxGen : ChildNames[k] \in r})

\* #clearChildren(element) on [h |-> #handlers, hr |-> the handler objects,
\* m |-> #elementHandlerMap, p |-> parent, ...]: the handlers of the direct
\* children are filtered out by handler id, the children are removed
ClearChildren(st, element) ==
  LET children == {c \in Elements : st.p[c] = element}
      handlerIds == UNION {st.m[c] : c \in children}
      Keep(bind) == st.hr[bind].element \notin handlerIds
  IN [st EXCEPT !.h = [b \in DOMAIN st.h |-> SelectSeq(st.h[b], Keep)],
                !.m = [e \in Elements |-> IF e \in children THEN {} ELSE st.m[e]],
                !.p = [n \in Nodes |-> IF n \in children THEN NoNode ELSE st.p[n]]]

\* render(child, null, depth + 1) and appendChild for the one child template
\* of the list, in its k-th render:
\*   {binding: "a.b", click: f, class: (v) => v,
\*    children: [{binding: "a.b", textContent: (v) => v}]}
RenderListChild(st, element, k) ==
  LET c == ChildNames[k]
      g == GrandNames[k]
      ev == RegisterEvent([d |-> st.d, l |-> st.l, s |-> NoStash], "click",
                          NodeRef(c), "fn", <<c, "click">>, NoOpt)
      result == Evaluate("value", Get(data, B_ab))
      written == IF result # Null
                   THEN [e \in Elements |-> IF e \in {c, g} THEN result ELSE st.t[e]]
                   ELSE st.t
  IN [st EXCEPT !.d = ev.d, !.l = ev.l,
                !.h = Put(st.h, B_ab, At(st.h, B_ab) \o <<c, g>>),
                !.hr = [x \in HandlerIds |->
                          IF x = c THEN [element |-> c, property |-> "class", func |-> "value"]
                          ELSE IF x = g
                            THEN [element |-> g, property |-> "textContent", func |-> "value"]
                          ELSE st.hr[x]],
                !.m = [e \in Elements |-> IF e \in {c, g} THEN st.m[e] \cup {e} ELSE st.m[e]],
                !.p = [n \in Nodes |-> IF n = c THEN element
                                       ELSE IF n = g THEN c ELSE st.p[n]],
                !.r = st.r \cup {c, g},
                !.t = written,
                !.ps = StartPoll(StartPoll(st.ps, stashedLoadEvent), stashedLoadEvent)]

\* #setChildren(element, "children", [child], depth)
SetChildren(st, element, k) ==
  LET cleared == IF \E c \in Elements : st.p[c] = element
                   THEN ClearChildren(st, element) ELSE st
  IN RenderListChild(cleared, element, k)

\* render({binding: "a", children: (v) => [child]}, "body") in client mode,
\* creating the list element e1 and the first child and grandchild
RenderList ==
  /\ "e1" \notin rendered
  /\ Gen(rendered) = 0
  /\ LET st0 == [h |-> Put(handlers, B_a, Append(At(handlers, B_a), "e1")),
                 hr |-> [hrec EXCEPT !["e1"] = [element |-> "e1", property |-> "children",
                                                func |-> "value"]],
                 m |-> [elementHandlerMap EXCEPT !["e1"] = @ \cup {"e1"}],
                 p |-> parent, r |-> rendered \cup {"e1"},
                 t |-> text, d |-> delegate, l |-> listeners, ps |-> polls]
         st == SetChildren(st0, "e1", 1)
         par == [st.p EXCEPT !["e1"] = "body"]
         es == MutationCallback(st.d, par, "body", TRUE)
     IN /\ handlers' = st.h
        /\ hrec' = st.hr
        /\ elementHandlerMap' = st.m
        /\ parent' = par
        /\ rendered' = st.r
        /\ text' = st.t
        /\ delegate' = es.d
        /\ listeners' = st.l
        /\ polls' = StartPoll(st.ps, stashedLoadEvent)
        /\ gcTimer' = (gcTimer \/ observing)
        /\ last' = [NoCall EXCEPT !.op = "render", !.b = B_a, !.h = "e1",
                                  !.x = Get(data, B_a), !.wrote = TRUE,
                                  !.calls = es.calls]
  /\ decl' = [decl EXCEPT !["e1"] = [binding |-> B_a, triggers |-> <<>>]]
  /\ UNCHANGED <<data, triggers, pending, nops, disabled, observing, edecl,
                 ivars, stashedLoadEvent, loadCalls, svars, ovars>>

\* handlers.splice(handlers.indexOf(handler), 1)
RemoveFirst(seq, h) ==
  IF \E i \in 1..Len(seq) : seq[i] = h
    THEN LET i == CHOOSE j \in 1..Len(seq) :
                    seq[j] = h /\ \A k \in 1..(j - 1) : seq[k] # h
         IN SubSeq(seq, 1, i - 1) \o SubSeq(seq, i + 1, Len(seq))
    ELSE seq

\* the rest of #handle(binding, handler) after its await. A call whose pipe
\* holds an import string waits for import(path), which succeeds (ok: the
\* module is cached and the pipe holds the component) or fails (the pipe
\* holds null); the other calls resume in the order in which they were
\* started (i = 1)
Resume(i) ==
  /\ i \in 1..Len(pending)
  /\ LET h == pending[i].h
         waiting == hpipe[h] = "import"
     IN \E ok \in BOOLEAN :
          /\ waiting \/ ok
          /\ importCache' = (importCache \/ (waiting /\ ok))
          /\ hpipe' = IF waiting
                        THEN [hpipe EXCEPT ![h] = IF ok THEN "component" ELSE "null"]
                        ELSE hpipe
  /\ LET binding == pending[i].binding
         h == pending[i].h
         value == Evaluate(hrec[h].func, Get(data, binding))
         id == hrec[h].element
         element == IF id # NoNode THEN QuerySelector(parent, id) ELSE NoNode
         gone == element # NoNode /\ ~Contains(parent, "body", element)
                   /\ element # "html"
         children == element # NoNode /\ ~gone /\ hrec[h].property = "children"
         st0 == [h |-> IF gone /\ binding \in DOMAIN handlers
                         THEN [handlers EXCEPT ![binding] = RemoveFirst(@, h)]
                         ELSE handlers,
                 hr |-> [hrec EXCEPT ![h].element = element],
                 m |-> elementHandlerMap, p |-> parent, r |-> rendered,
                 t |-> text, d |-> delegate, l |-> listeners, ps |-> polls]
         st == IF children THEN SetChildren(st0, element, Gen(rendered) + 1) ELSE st0
         es == IF children /\ observing
                 THEN MutationCallback(st.d, st.p, element, TRUE)
                 ELSE NoCalls(st.d)
     IN /\ children => Gen(rendered) < MaxGen
        /\ last' = [NoCall EXCEPT !.op = "handle", !.b = binding, !.h = h,
                                    !.x = Get(data, binding),
                                    !.wrote = (element # NoNode /\ ~gone),
                                    !.calls = es.calls]
        /\ hrec' = st.hr
        /\ handlers' = st.h
        /\ text' = IF element # NoNode /\ ~gone /\ ~children
                     THEN [st.t EXCEPT ![element] = SetTextContent(@, value)] ELSE st.t
        /\ elementHandlerMap' = st.m
        /\ parent' = st.p
        /\ rendered' = st.r
        /\ delegate' = es.d
        /\ listeners' = st.l
        /\ polls' = st.ps
        /\ gcTimer' = (gcTimer \/ (children /\ observing))
  /\ pending' = SubSeq(pending, 1, i - 1) \o SubSeq(pending, i + 1, Len(pending))
  /\ UNCHANGED <<data, triggers, decl, nops, disabled, observing, edecl,
                 attempts, idleq, loading, stashedLoadEvent, loadCalls, svars, ovars>>

\* ------------------------------------------------------- event actions
\* a template with event keys: the node it creates, its event keys with
\* their functions, where it is rendered and whether it sets disabled
Fun(key) == [key |-> key, func |-> "fn", opt |-> NoOpt]
\* an event key of a template that has a pipe, and one that the template
\* lists in preventDefault
FunPipe(key) == [key |-> key, func |-> "fn",
                 opt |-> [pipe |-> TRUE, preventDefault |-> FALSE]]
FunPrevent(key) == [key |-> key, func |-> "fn",
                    opt |-> [pipe |-> FALSE, preventDefault |-> TRUE]]
Tpl(n, keys, where, dis) == [n |-> n, keys |-> keys, where |-> where, dis |-> dis]
EventNodes == {"root", "e1", "e2"}
NoTpl == [n |-> NoNode, keys |-> <<>>, where |-> "none", dis |-> FALSE]

RECURSIVE AddDelegates(_, _, _)
\* Object.keys(template).forEach for the event keys of the template of n
AddDelegates(st, n, keys) ==
  IF keys = <<>> THEN st
  ELSE AddDelegates(AddEventDelegate(st, n, Head(keys).key, Head(keys).func,
                                     <<n, Head(keys).key>>, Head(keys).opt),
                    n, Tail(keys))

\* render(template, callbackOrQuery) in client mode for a template with
\* event keys and no binding; the template of "root" has one plain child,
\* created as e2; where = "body": render(template, "body"); "detached": the
\* element is returned
RenderEvents(tpl) ==
  LET n == tpl.n
      child == IF n = "root" /\ "e2" \notin rendered THEN {"e2"} ELSE {}
      st == AddDelegates([d |-> delegate, l |-> listeners, s |-> stashedLoadEvent],
                         n, tpl.keys)
  IN /\ n \notin rendered
     /\ rendered' = rendered \cup {n} \cup child
     /\ parent' = [m \in Nodes |->
                     IF m = n THEN (IF tpl.where = "body" THEN "body" ELSE NoNode)
                     ELSE IF m \in child THEN n
                     ELSE parent[m]]
     /\ disabled' = IF tpl.dis THEN disabled \cup {n} ELSE disabled
     /\ listeners' = st.l
     /\ LET es == MutationCallback(st.d, parent', "body", tpl.where = "body") IN
          /\ delegate' = es.d
          /\ gcTimer' = (gcTimer \/ (observing /\ tpl.where = "body"))
          /\ last' = [NoCall EXCEPT !.op = "render", !.t = n, !.calls = es.calls]
     /\ UNCHANGED <<data, handlers, triggers, hrec, text, pending, decl, nops,
                    elementHandlerMap, observing, ivars, loadCalls, svars, ovars>>
     /\ edecl' = [edecl EXCEPT ![n] = tpl]
     /\ stashedLoadEvent' = st.s
     \* the render of the child ends before the event keys of n are read,
     \* the render of n after them
     /\ polls' = StartPoll(IF child # {} THEN StartPoll(polls, stashedLoadEvent)
                                          ELSE polls,
                           st.s)

\* a native event of the given type is dispatched on a node of the document
Event(type, key, eventTarget) ==
  /\ nops < MaxOps
  /\ nops' = nops + 1
  /\ eventTarget \in rendered
  /\ Contains(parent, "html", eventTarget)
  /\ LET es == Dispatch(NoCalls(delegate), listeners, parent, disabled,
                        type, key, eventTarget) IN
       /\ delegate' = es.d
       /\ last' = [NoCall EXCEPT !.op = type, !.t = eventTarget, !.key = key,
                                 !.calls = es.calls, !.err = es.err,
                                 !.prevented = es.prevented]
  /\ UNCHANGED <<data, handlers, triggers, hrec, rendered, parent, text,
                 pending, decl, elementHandlerMap, listeners, disabled,
                 observing, gcTimer, edecl, ivars, lvars, svars, ovars>>

Click(eventTarget) == Event("click", "", eventTarget)
KeyDown(key, eventTarget) == Event("keydown", key, eventTarget)
KeyPress(code, eventTarget) == Event("keypress", code, eventTarget)

\* application code adds a child to node n of the body (added) or removes
\* one (~added); the observer, when it runs, delivers one childList record
ChildListChange(n, added) ==
  /\ nops < MaxOps
  /\ nops' = nops + 1
  /\ n \in rendered
  /\ Contains(parent, "body", n)
  /\ LET es == MutationCallback(delegate, parent, n, added) IN
       /\ delegate' = es.d
       /\ gcTimer' = (gcTimer \/ (observing /\ added))
       /\ last' = [NoCall EXCEPT !.op = IF added THEN "childAdded" ELSE "childRemoved",
                                 !.t = n, !.calls = es.calls, !.err = es.err]
  /\ UNCHANGED <<data, handlers, triggers, hrec, rendered, parent, text,
                 pending, decl, elementHandlerMap, listeners, disabled, observing,
                 edecl, ivars, lvars, svars, ovars>>

\* application code changes attribute attributeName of node n of the body;
\* the observer, when it runs, delivers one attributes record
AttributeChange(n, attributeName) ==
  /\ nops < MaxOps
  /\ nops' = nops + 1
  /\ n \in rendered
  /\ Contains(parent, "body", n)
  /\ LET es == AttributeCallback(delegate, parent, n, attributeName) IN
       /\ delegate' = es.d
       /\ gcTimer' = (gcTimer \/ observing)
       /\ last' = [NoCall EXCEPT !.op = "attributeChanged", !.t = n,
                                 !.key = attributeName,
                                 !.calls = es.calls, !.err = es.err]
  /\ UNCHANGED <<data, handlers, triggers, hrec, rendered, parent, text,
                 pending, decl, elementHandlerMap, listeners, disabled, observing,
                 edecl, ivars, lvars, svars, ovars>>

\* the callback of the setInterval poll i finds target.parentNode set: the
\* load function is called and the interval is cleared
PollTick(i) ==
  /\ i \in 1..Len(polls)
  /\ LET target == polls[i].target.n IN
       /\ parent[target] # NoNode
       /\ loadCalls' = [loadCalls EXCEPT ![target] = @ + 1]
       /\ last' = [NoCall EXCEPT !.op = "load", !.t = target,
                     !.calls = <<[id |-> polls[i].id, match |-> target]>>]
  /\ polls' = SubSeq(polls, 1, i - 1) \o SubSeq(polls, i + 1, Len(polls))
  /\ UNCHANGED <<data, handlers, triggers, hrec, rendered, parent, text,
                 pending, decl, nops, elementHandlerMap, evars, ivars,
                 stashedLoadEvent, svars, ovars>>

\* the poll i has run for maxWaitTime without finding target.parentNode:
\* a warning is logged and the interval is cleared
PollTimeout(i) ==
  /\ i \in 1..Len(polls)
  /\ parent[polls[i].target.n] = NoNode
  /\ last' = [NoCall EXCEPT !.op = "loadTimeout", !.t = polls[i].target.n,
                            !.err = "warn"]
  /\ polls' = SubSeq(polls, 1, i - 1) \o SubSeq(polls, i + 1, Len(polls))
  /\ UNCHANGED <<data, handlers, triggers, hrec, rendered, parent, text,
                 pending, decl, nops, elementHandlerMap, evars, ivars,
                 stashedLoadEvent, loadCalls, svars, ovars>>

\* the node a handler id or a delegate target resolves to in the document
ResolveHandler(par, h) ==
  IF hrec[h].element # NoNode THEN QuerySelector(par, hrec[h].element) ELSE NoNode
ResolveTarget(par, target) ==
  IF target.ref = "id" THEN QuerySelector(par, target.n) ELSE target.n

\* #garbageCollect(), run by the debounce timer
GarbageCollect ==
  /\ gcTimer
  /\ gcTimer' = FALSE
  /\ LET InBody(m) == m \in Nodes /\ Contains(parent, "body", m)
         KeepH(h) == InBody(ResolveHandler(parent, h))
         KeepD(dg) == InBody(ResolveTarget(parent, dg.target))
     IN /\ handlers' = [b \in DOMAIN handlers |-> SelectSeq(handlers[b], KeepH)]
        /\ elementHandlerMap' =
             [e \in Elements |->
                IF \E b \in DOMAIN handlers : \E i \in 1..Len(handlers[b]) :
                     /\ ResolveHandler(parent, handlers[b][i]) = e
                     /\ ~InBody(e)
                  THEN {} ELSE elementHandlerMap[e]]
        /\ delegate' = [k \in DOMAIN delegate |-> SelectSeq(delegate[k], KeepD)]
  /\ last' = [NoCall EXCEPT !.op = "gc"]
  /\ UNCHANGED <<data, triggers, hrec, rendered, parent, text, pending, decl,
                 nops, listeners, disabled, observing, edecl, ivars, lvars, svars, ovars>>

\* destroy(element): asyncDestroy has no await and runs to its end
DestroyNode(element) ==
  /\ nops < MaxOps
  /\ nops' = nops + 1
  /\ element \in rendered \ {"html", "head", "body"}
  /\ LET handlerIds == IF element \in Elements THEN elementHandlerMap[element] ELSE {}
         KeepH(h) == hrec[h].element \notin handlerIds
         KeepD(dg) == LET delegateTarget == ResolveTarget(parent, dg.target) IN
                      ~(delegateTarget \in Nodes /\ Contains(parent, element, delegateTarget))
     IN /\ handlers' = [b \in DOMAIN handlers |-> SelectSeq(handlers[b], KeepH)]
        /\ elementHandlerMap' = [e \in Elements |->
                                   IF e = element THEN {} ELSE elementHandlerMap[e]]
        /\ delegate' = [k \in DOMAIN delegate |-> SelectSeq(delegate[k], KeepD)]
  /\ parent' = [parent EXCEPT ![element] = NoNode]
  /\ last' = [NoCall EXCEPT !.op = "destroyNode", !.t = element]
  /\ edecl' = [n \in EventNodes |->
                 IF Contains(parent, element, n) THEN NoTpl ELSE edecl[n]]
  /\ UNCHANGED <<data, triggers, hrec, rendered, text, pending, decl,
                 listeners, disabled, observing, gcTimer, ivars, lvars, svars, ovars>>

\* ------------------------------------------------- src/objekt.js (Objekt)
\* the elements that the templates of this generation create: o1, bound to
\* "a" by its children, and its child o2, bound to "a.b.c" by its text
OElements == {"o1", "o2"}
NoOCall == [op |-> "none", b |-> <<>>, threw |-> FALSE, calls |-> <<>>,
            synced |-> {}]
\* the object before init() has rendered or set anything
NoObjekt ==
  /\ odata = EmptyObj
  /\ ohandlers = EmptyMap
  /\ oparent = [e \in OElements |-> NoNode]
  /\ otext = [e \in OElements |-> Str("")]
  /\ endpoints = {}
  /\ fromServer = FALSE
  /\ syncTimeouts = {}
  /\ requests = {}
  /\ olast = NoOCall
  /\ onops = 0

\* {...target}, or [...target] for an array: the copy that
\* _compareAndUpdate starts from
SpreadCopy(target) ==
  CASE target.t \in {"obj", "arr"} -> target
    [] target.t = "str" /\ target.v # "" -> Obj(("0" :> target))
    [] OTHER -> EmptyObj

\* the keys that for (const key in value) visits
ForInKeys(value) ==
  CASE value.t = "obj" -> DOMAIN value.v
    [] value.t = "arr" -> DOMAIN value.v \ {"length"}
    [] value.t = "str" /\ value.v # "" -> {"0"}
    [] OTHER -> {}

RECURSIVE CompareAndUpdate(_, _)
RECURSIVE CompareKeys(_, _, _)
\* the loop of _compareAndUpdate over the keys ks of value
CompareKeys(updatedTarget, value, ks) ==
  IF ks = {} THEN updatedTarget
  ELSE LET key == CHOOSE k \in ks : TRUE
           v == Prop(value, key)
           cur == Prop(updatedTarget, key)
           new == IF IsArray(v) THEN v
                  ELSE IF ~Falsy(v) /\ v.t = "obj"
                    THEN CompareAndUpdate(IF Falsy(cur) \/ ~TypeofObject(cur)
                                            THEN EmptyObj ELSE cur, v)
                  ELSE v
       IN CompareKeys(Assign(updatedTarget, key, new), value, ks \ {key})

\* _compareAndUpdate(target, value).updatedTarget: value merged into a copy
\* of target
CompareAndUpdate(target, value) ==
  IF target = value THEN SpreadCopy(target)
  ELSE CompareKeys(SpreadCopy(target), value, ForInKeys(value))

\* the get trap of the data Proxy for a hook
ProxyGet(d, hook) == IF Prop(d, hook).t = "undef" THEN Null ELSE Prop(d, hook)

RECURSIVE OGetFrom(_, _)
\* the reduce of get(binding) after the hook: acc[part]
OGetFrom(acc, parts) ==
  IF parts = <<>> THEN acc
  ELSE IF acc.t \in {"null", "undef"} THEN Thrown
  ELSE OGetFrom(Prop(acc, Head(parts)), Tail(parts))

\* get(binding) of objekt.js: the value, or Thrown
OGet(d, binding) ==
  LET keys == Split(binding) IN OGetFrom(ProxyGet(d, Head(keys)), Tail(keys))

RECURSIVE OCheck(_, _, _)
\* check(target, index) in set, below the hook: the target after the
\* assignment, or Thrown (a property of null or undefined is read, or a
\* property of a primitive is assigned in strict mode)
OCheck(target, keys, value) ==
  IF Len(keys) = 1
    THEN IF target.t \in {"obj", "arr"} THEN Assign(target, Head(keys), value)
         ELSE Thrown
  ELSE IF target.t \in {"null", "undef"} THEN Thrown
  ELSE LET r == OCheck(Prop(target, Head(keys)), Tail(keys), value) IN
       IF r = Thrown \/ target.t \notin {"obj", "arr"} THEN Thrown
       ELSE Assign(target, Head(keys), r)

\* the assignments of set(binding, value) of objekt.js, before
\* _handleBindingUpdate: the data afterwards and whether set threw
OSetData(d, binding, value) ==
  LET keys == Split(binding)
      hook == Head(keys)
  IN IF Falsy(ProxyGet(d, hook)) \/ Len(keys) = 1
       \* this.data[hook] = value, through the set trap of the Proxy
       THEN [d |-> Assign(d, hook, CompareAndUpdate(Prop(d, hook), value)),
             threw |-> FALSE]
     ELSE LET r == OCheck(ProxyGet(d, hook), Tail(keys), value) IN
          IF r = Thrown THEN [d |-> d, threw |-> TRUE]
          ELSE [d |-> Assign(d, hook, r), threw |-> FALSE]

\* the binding that checkHandlers of _handleBindingUpdate ends at: the
\* first of binding, its parent, ... for which this.handlers[binding] is
\* truthy (an array, empty or not), or <<>> when there is none
RECURSIVE OCheckHandlers(_, _)
RECURSIVE OCheckHandlersAttached(_, _)
\* mutant: a binding whose array is empty is passed over
OCheckHandlersAttached(h, binding) ==
  IF binding \in DOMAIN h /\ h[binding] # <<>> THEN binding
  ELSE IF Len(binding) = 1 THEN <<>>
  ELSE OCheckHandlersAttached(h, SubSeq(binding, 1, Len(binding) - 1))
OCheckHandlers(h, binding) ==
  IF binding \in DOMAIN h THEN binding
  ELSE IF Len(binding) = 1 THEN <<>>
  ELSE OCheckHandlers(h, SubSeq(binding, 1, Len(binding) - 1))

\* document.createTextNode(value): the string that the text node holds
OTextNode(value) ==
  CASE value.t = "str" -> value
    [] value.t = "undef" -> Str("undefined")
    [] value.t = "null" -> Str("null")
    [] value.t = "arr" -> Str("")
    [] OTHER -> Str("[object Object]")

\* the evaluator of o1's children: (v) => v && v.b && v.b.c ? [o2] : []
OChildren(v) ==
  IF ~Falsy(v) /\ ~Falsy(Prop(v, "b")) /\ ~Falsy(Prop(Prop(v, "b"), "c"))
    THEN <<"o2">> ELSE <<>>

\* _clearChildren(element): the handlers of every direct child are
\* filtered out of every array and the child is removed
OClearChildren(st, element) ==
  LET children == {c \in OElements : st.par[c] = element} IN
  [st EXCEPT
     !.h = [k \in DOMAIN st.h |->
              SelectSeq(st.h[k], LAMBDA e : e \notin children)],
     !.par = [c \in OElements |->
                IF c \in children THEN NoNode ELSE st.par[c]]]

\* render of the child o2 below element: _processFunctionValue registers
\* its handler at "a.b.c" and sets its text from the evaluator (c) => c
ORenderChild(st, element) ==
  LET v == OGet(st.d, B_abc)
      hs == IF B_abc \in DOMAIN st.h THEN st.h[B_abc] ELSE <<>>
  IN [st EXCEPT
        !.h = Put(st.h, B_abc, Append(hs, "o2")),
        !.par = [st.par EXCEPT !["o2"] = element],
        !.text = IF v \in {Thrown, Null} THEN st.text
                 ELSE [st.text EXCEPT !["o2"] = OTextNode(v)]]

\* _setChildren(element, "children", value)
OSetChildren(st, element, value) ==
  LET st1 == IF \E c \in OElements : st.par[c] = element
               THEN OClearChildren(st, element) ELSE st
  IN IF value = <<>> THEN st1 ELSE ORenderChild(st1, element)

\* _handle(binding, handler) for the handler of element
OHandle(st, binding, element) ==
  LET v == OGet(st.d, binding)
      st1 == [st EXCEPT !.calls = Append(st.calls, element)]
  IN IF v = Thrown THEN st1
     ELSE IF element = "o1" THEN OSetChildren(st1, element, OChildren(v))
     ELSE [st1 EXCEPT !.text = [st.text EXCEPT ![element] = OTextNode(v)]]

\* _syncWithServer(binding): the sync of binding is (re)armed
OSyncWithServer(st, binding) ==
  LET hook == Head(Split(binding)) IN
  [st EXCEPT
     !.d = IF Falsy(ProxyGet(st.d, hook))
             THEN Assign(st.d, hook, CompareAndUpdate(Prop(st.d, hook), EmptyObj))
             ELSE st.d,
     !.timeouts = st.timeouts \cup {binding},
     !.synced = st.synced \cup {binding}]

RECURSIVE OForEach(_, _, _, _)
\* this.handlers[binding].forEach(...) of checkHandlers over the array hs
OForEach(st, binding, hs, flag) ==
  IF hs = <<>> THEN st
  ELSE LET st1 == OHandle(st, binding, Head(hs))
           st2 == IF ~flag /\ Head(Split(binding)) \in endpoints
                    THEN OSyncWithServer(st1, binding) ELSE st1
       IN OForEach(st2, binding, Tail(hs), flag)

\* _handleBindingUpdate(binding) on the client, with _fromServer = flag
OHandleBindingUpdate(st, binding, flag) ==
  LET hb == OCheckHandlers(st.h, binding) IN
  IF hb = <<>> THEN st ELSE OForEach(st, hb, st.h[hb], flag)

\* the state that the operators above work on
OState ==
  [d |-> odata, h |-> ohandlers, par |-> oparent, text |-> otext,
   timeouts |-> syncTimeouts, calls |-> <<>>, synced |-> {}]

\* set(binding, value) with _fromServer = flag: the state afterwards and
\* whether set threw
OSetCall(binding, value, flag) ==
  LET r == OSetData(odata, binding, value) IN
  IF r.threw THEN [st |-> OState, threw |-> TRUE]
  ELSE [st |-> OHandleBindingUpdate([OState EXCEPT !.d = r.d], binding, flag),
        threw |-> FALSE]

OCommit(st) ==
  /\ odata' = st.d
  /\ ohandlers' = st.h
  /\ oparent' = st.par
  /\ otext' = st.text
  /\ syncTimeouts' = st.timeouts

MaxCalls == 4       \* set and setData calls per behaviour

\* Objekt.set(binding, value), called by the application
OSet(binding, value) ==
  /\ onops < MaxCalls
  /\ onops' = onops + 1
  /\ LET r == OSetCall(binding, value, fromServer) IN
       /\ OCommit(r.st)
       /\ olast' = [op |-> "set", b |-> binding, threw |-> r.threw,
                    calls |-> r.st.calls, synced |-> r.st.synced]
  /\ UNCHANGED <<endpoints, fromServer, requests, cvars, svars>>

\* Objekt.setData(bindingId, data, endpoint) with an endpoint
OSetDataCall(bindingId, value) ==
  /\ onops < MaxCalls
  /\ onops' = onops + 1
  /\ LET r == OSetCall(<<Seg(bindingId)>>, value, fromServer) IN
       /\ OCommit(r.st)
       /\ olast' = [op |-> "setData", b |-> <<Seg(bindingId)>>,
                    threw |-> r.threw, calls |-> r.st.calls,
                    synced |-> r.st.synced]
       /\ endpoints' = IF r.threw THEN endpoints
                       ELSE endpoints \cup {bindingId}
  /\ UNCHANGED <<fromServer, requests, cvars, svars>>

\* Objekt.render of the template of o1 into the body
ORender ==
  /\ oparent["o1"] = NoNode
  /\ LET st0 == [OState EXCEPT
                   !.h = Put(ohandlers, B_a,
                             Append(IF B_a \in DOMAIN ohandlers
                                      THEN ohandlers[B_a] ELSE <<>>, "o1")),
                   !.par = [oparent EXCEPT !["o1"] = "body"]]
         st == OSetChildren(st0, "o1", OChildren(OGet(odata, B_a)))
     IN /\ OCommit(st)
        /\ olast' = [NoOCall EXCEPT !.op = "render"]
  /\ UNCHANGED <<endpoints, fromServer, requests, onops, cvars, svars>>

\* the debounce timer of _syncWithServer(binding) fires: the request is
\* sent unless get(binding) throws
SyncTimeout(binding) ==
  /\ binding \in syncTimeouts
  /\ OGet(odata, binding) # Thrown
  /\ syncTimeouts' = syncTimeouts \ {binding}
  /\ requests' = requests \cup {binding}
  /\ olast' = [NoOCall EXCEPT !.op = "timeout", !.b = binding]
  /\ UNCHANGED <<odata, ohandlers, oparent, otext, endpoints, fromServer,
                 onops, cvars, svars>>

\* the response to the request of binding arrives: ok says whether
\* response.ok, value is the parsed body
SyncResponse(binding, ok, value) ==
  /\ binding \in requests
  /\ requests' = requests \ {binding}
  /\ IF ok /\ OGet(odata, binding) # Thrown /\ value # OGet(odata, binding)
       THEN LET r == OSetCall(binding, value, TRUE) IN
            /\ OCommit(r.st)
            \* this._fromServer = false is skipped when set throws
            /\ fromServer' = r.threw
            /\ olast' = [op |-> "response", b |-> binding,
                         threw |-> r.threw, calls |-> r.st.calls,
                         synced |-> r.st.synced]
       ELSE /\ olast' = [NoOCall EXCEPT !.op = "ignored", !.b = binding]
            /\ UNCHANGED <<odata, ohandlers, oparent, otext, syncTimeouts,
                           fromServer>>
  /\ UNCHANGED <<endpoints, onops, cvars, svars>>


\* ------------------------------------------------- view-engine adapter
MaxPasses == 2      \* concurrent render passes
Passes == 1..MaxPasses

\* new MateriaJS() on the server: the field initializers
NewMateria == [data |-> EmptyObj, handlers |-> EmptyMap, triggers |-> EmptyMap,
               delegate |-> EmptyMap]
NoResponse == [data |-> Undef, handlers |-> EmptyMap, triggers |-> EmptyMap,
               delegate |-> EmptyMap]
IdlePass == [pc |-> "idle", view |-> "none", user |-> "none", i |-> 1,
             overlap |-> FALSE]

\* no request has reached the adapter
NoPasses ==
  /\ engine = [p \in Passes |-> NewMateria]
  /\ pass = [p \in Passes |-> IdlePass]
  /\ response = [p \in Passes |-> NoResponse]

\* mutant: one module-level instance serves every pass, as in the earlier
\* adapter generation
MateriaShared(p) == 1

\* const Materia = new MateriaJS() in renderView: the instance of pass p
MateriaOf(p) == p

\* the views: view.data of each, as [key, fn], fn for a prop function that
\* the pass awaits, and the bound element of view.default
Views == {"home", "account"}
Users == {"none", "alice", "bob"}
ViewProps(view) ==
  IF view = "home" THEN <<[key |-> "a", fn |-> FALSE]>>
  ELSE <<[key |-> "b", fn |-> TRUE]>>
ViewElement(view) == IF view = "home" THEN "e1" ELSE "e2"
ViewBinding(view) == IF view = "home" THEN <<Seg("a")>> ELSE <<Seg("b")>>

\* props = {...viewProps, ...appProps}; props.user = _data.user
PropsOf(view, user) ==
  ViewProps(view) \o (IF user # "none" THEN <<[key |-> "user", fn |-> FALSE]>>
                                       ELSE <<>>)
\* typeof props[key] === "function" ? await props[key](_data) : props[key]
PropsData(prop, user) ==
  IF prop.key = "user" \/ prop.fn THEN Str(user) ELSE Str("x")

\* handledata(Materia, key, propsData): Materia.set(key, value)
Handledata(m, prop, user) ==
  [m EXCEPT !.data = SetData(m.data, <<Seg(prop.key)>>, PropsData(prop, user)).d]

\* Materia.render(view.default(_data)) on the server: the bound element of
\* the view registers its handler, its trigger and its click delegate
ServerRender(m, view, id) ==
  LET b == ViewBinding(view)
      e == ViewElement(view)
  IN [m EXCEPT
        !.handlers = Put(m.handlers, b, Append(At(m.handlers, b), id)),
        !.triggers = Put(m.triggers, b \o T_b,
                         Append(At(m.triggers, b \o T_b),
                                [binding |-> b, handler |-> id])),
        !.delegate = Put(m.delegate, "click",
                         Append(At(m.delegate, "click"),
                                [target |-> IdRef(id), func |-> "src",
                                 id |-> <<e, "click">>]))]

\* another pass is between two of its awaits
Overlaps(p) == \E q \in Passes \ {p} : pass[q].pc = "props"

\* app.engine callback: renderView(view, _data, appProps, callback) up to
\* its first await
RenderViewStart(p, view, user) ==
  /\ pass[p].pc = "idle"
  /\ engine' = [engine EXCEPT ![MateriaOf(p)] = NewMateria]
  /\ pass' = [pass EXCEPT ![p] = [pc |-> "props", view |-> view, user |-> user,
                                   i |-> 1, overlap |-> Overlaps(p)]]
  /\ UNCHANGED <<cvars, response, ovars>>

\* one turn of for (const key in props) after its awaits
SetProp(p) ==
  /\ pass[p].pc = "props"
  /\ LET props == PropsOf(pass[p].view, pass[p].user) IN
       /\ pass[p].i <= Len(props)
       /\ engine' = [engine EXCEPT ![MateriaOf(p)] =
                        Handledata(@, props[pass[p].i], pass[p].user)]
  /\ pass' = [pass EXCEPT ![p].i = @ + 1, ![p].overlap = @ \/ Overlaps(p)]
  /\ UNCHANGED <<cvars, response, ovars>>

\* const html = Materia.render(view.default(_data)); callback(null, html)
RenderPass(p) ==
  /\ pass[p].pc = "props"
  /\ pass[p].i > Len(PropsOf(pass[p].view, pass[p].user))
  /\ LET m == ServerRender(engine[MateriaOf(p)], pass[p].view, <<p, ViewElement(pass[p].view)>>)
     IN /\ engine' = [engine EXCEPT ![MateriaOf(p)] = m]
        /\ response' = [response EXCEPT ![p] = m]
  /\ pass' = [pass EXCEPT ![p].pc = "done", ![p].overlap = @ \/ Overlaps(p)]
  /\ UNCHANGED <<cvars, ovars>>

\* ---------------------------------------------------------- specification
\* new MateriaJS({data, handlers: {}, triggers: {}, delegate: {}}) on a
\* document with an empty body
Init ==
  /\ data \in InitData
  /\ handlers = EmptyMap
  /\ triggers = EmptyMap
  /\ hrec = [h \in HandlerIds |-> NoHandler]
  /\ rendered = {"html", "head", "body"}
  /\ parent = [n \in Nodes |-> IF n \in {"head", "body"} THEN "html" ELSE NoNode]
  /\ text = [e \in Elements |-> Str("")]
  /\ pending = <<>>
  /\ decl = [e \in Elements |-> [binding |-> <<>>, triggers |-> <<>>]]
  /\ last = NoCall
  /\ nops = 0
  /\ elementHandlerMap = [e \in Elements |-> {}]
  /\ delegate = EmptyMap
  /\ listeners = <<>>
  /\ disabled = {}
  /\ observing = FALSE
  /\ gcTimer = FALSE
  /\ edecl = [n \in EventNodes |-> NoTpl]
  /\ importCache = FALSE
  /\ attempts = 0
  /\ hpipe = [h \in HandlerIds |-> "none"]
  /\ idleq = <<>>
  /\ loading = {}
  /\ stashedLoadEvent = NoStash
  /\ polls = <<>>
  /\ loadCalls = [n \in EventNodes |-> 0]
  /\ NoPasses
  /\ NoObjekt

RenderArgs ==
  {<<"e1", B_a, <<>>, "body">>, <<"e1", B_a, <<T_b>>, "body">>,
   <<"e2", B_ab, <<>>, "body">>, <<"e2", B_ab, <<>>, "nested">>}

Next ==
  \/ \E a \in SetArgs : Set(a[1], a[2])
  \/ \E a \in UpdateArgs : Update(a[1], a[2])
  \/ \E a \in PushArgs : Push(a[1], a[2])
  \/ \E a \in PushManyArgs : PushMany(a[1], a[2])
  \/ \E b \in ArrayPaths, q \in Queries, x \in ArrayValues : SetInArray(b, q, x)
  \/ \E b \in ArrayPaths, q \in Queries : Pull(b, q)
  \/ \E b \in DestroyPaths : Destroy(b)
  \/ \E b \in GetPaths : GetCall(b)
  \/ \E a \in RenderArgs : Render(a[1], a[2], a[3], a[4])
  \/ Insert("root")
  \/ Resume(1)

Spec == Init /\ [][Next]_vars

\* the Store alone: the data API on a page without bound elements
NextStore ==
  \/ \E a \in SetArgs : Set(a[1], a[2])
  \/ \E a \in UpdateArgs : Update(a[1], a[2])
  \/ \E a \in PushArgs : Push(a[1], a[2])
  \/ \E a \in PushManyArgs : PushMany(a[1], a[2])
  \/ \E b \in ArrayPaths, q \in Queries, x \in ArrayValues : SetInArray(b, q, x)
  \/ \E b \in ArrayPaths, q \in Queries : Pull(b, q)
  \/ \E b \in DestroyPaths : Destroy(b)
  \/ \E b \in GetPaths : GetCall(b)

SpecStore == Init /\ [][NextStore]_vars

\* bound elements under set and destroy
BindSetArgs ==
  ({B_a, B_ab, B_abc, B_a0} \X {Str("x"), Str(""), EmptyObj})
    \cup {<<B_a, Undef>>, <<B_a, Null>>}

NextBind ==
  \/ \E a \in BindSetArgs : Set(a[1], a[2])
  \/ \E b \in {B_a, B_ab} : Destroy(b)
  \/ \E a \in RenderArgs : Render(a[1], a[2], a[3], a[4])
  \/ Insert("root")
  \/ Resume(1)

SpecBind == Init /\ [][NextBind]_vars

\* bound elements under push and pushMany
NextPush ==
  \/ \E a \in PushArgs : Push(a[1], a[2])
  \/ \E a \in PushManyArgs : PushMany(a[1], a[2])
  \/ \E a \in RenderArgs : Render(a[1], a[2], a[3], a[4])
  \/ Insert("root")
  \/ Resume(1)

SpecPush == Init /\ [][NextPush]_vars

\* one bound element under sets on its binding, the suspended #handle
\* calls resuming in any order
ReplaceValues == {Str("x"), Str("y"), Str(""), Null, EmptyObj, Undef}

NextReplace ==
  \/ \E v \in ReplaceValues : Set(B_a, v)
  \/ Render("e1", B_a, <<>>, "body")
  \/ \E i \in 1..(MaxOps + 1) : Resume(i)

SpecReplace == Init /\ [][NextReplace]_vars

\* ------------------------------------------------------------ hydration
\* #isValidMutation(event), for the event keys of the model
IsValidMutation(event) ==
  event \in {"childList", "attributes", "attributes:class"}

\* the order of the keys of the delegate payload
KindOrder == <<"click", "keypress", "keydown", "keydown:Enter", "keydown:Escape", "childList",
               "attributes", "attributes:class">>
KindsOf(d) == SelectSeq(KindOrder, LAMBDA k : k \in DOMAIN d)

RECURSIVE EnableEventDelegation(_, _)
\* #enableEventDelegation(): the listeners added for the kinds ks
EnableEventDelegation(d, ks) ==
  IF ks = <<>> THEN <<>>
  ELSE (IF IsValidMutation(Head(ks)) THEN <<>>
        ELSE <<CreateEventListener(Head(ks))>>)
       \o EnableEventDelegation(d, Tail(ks))

RECURSIVE SeededKeys(_, _, _)
\* the event keys of the template the server rendered element n from, read
\* off the delegate payload d for the kinds ks
SeededKeys(d, n, ks) ==
  IF ks = <<>> THEN <<>>
  ELSE (IF \E i \in 1..Len(d[Head(ks)]) : d[Head(ks)][i].target.n = n
          THEN <<[key |-> Head(ks),
                  func |-> (CHOOSE r \in {d[Head(ks)][i] : i \in 1..Len(d[Head(ks)])} :
                              r.target.n = n).func,
                  opt |-> NoOpt]>>
          ELSE <<>>)
       \o SeededKeys(d, n, Tail(ks))

\* a delegate record as the server render wrote it: the target is the
\* data-delegate-id of element n, the function is its source text
Seeded(n, kind, func) ==
  [target |-> IdRef(n), func |-> func, id |-> <<n, kind>>,
   pipe |-> FALSE, preventDefault |-> FALSE]

\* the pages a server render leaves behind: the elements in the body, the
\* handler payload, the trigger payload, the delegate payload and the
\* handlers whose pipe holds the import string of the component module
NoPayload == [els |-> {}, handlers |-> EmptyMap, triggers |-> EmptyMap,
              delegate |-> EmptyMap, pipes |-> {}]
TriggerPayload ==
  [els |-> {"e1"}, handlers |-> (B_a :> <<"e1">>),
   triggers |-> (B_ab :> <<[binding |-> B_a, handler |-> "t1"]>>),
   delegate |-> EmptyMap, pipes |-> {}]
ImportPayload ==
  [els |-> {"e1", "e2"}, handlers |-> (B_a :> <<"e1", "e2">>),
   triggers |-> EmptyMap, delegate |-> EmptyMap, pipes |-> {"e1", "e2"}]
BoundPayload ==
  [els |-> {"e1"}, handlers |-> (B_a :> <<"e1">>), triggers |-> EmptyMap,
   pipes |-> {},
   delegate |-> ("click" :> <<Seeded("e1", "click", "src")>>)
                @@ ("childList" :> <<Seeded("e1", "childList", "src")>>)]
AttrPayload ==
  [els |-> {"e1"}, handlers |-> EmptyMap, triggers |-> EmptyMap, pipes |-> {},
   delegate |-> ("attributes" :> <<Seeded("e1", "attributes", "src")>>)
                @@ ("attributes:class" :> <<Seeded("e1", "attributes:class", "src")>>)]
ClickPayload ==
  [els |-> {"e1", "e2"}, handlers |-> EmptyMap, triggers |-> EmptyMap,
   pipes |-> {},
   delegate |-> ("click" :> <<Seeded("e1", "click", "srcBare"),
                              Seeded("e2", "click", "src")>>)]

WatchPayload ==
  [els |-> {"e2"}, handlers |-> EmptyMap, triggers |-> EmptyMap, pipes |-> {},
   delegate |-> ("childList" :> <<Seeded("e2", "childList", "src")>>)]

\* the bindings under which the handler payload lists handler h
PageBinding(page, h) ==
  {b \in DOMAIN page.handlers :
     \E i \in 1..Len(page.handlers[b]) : page.handlers[b][i] = h}

\* the handlers, in the order of the payload, whose pipe is queued by
\* #initializeUnimportedPipes (the pipes without an import string, whose
\* resolution does nothing, are left out)
QueuedPipes(page) ==
  SelectSeq(<<"e1", "e2">>, LAMBDA h : h \in page.pipes)

\* new MateriaJS({data, handlers, triggers, delegate}) run by the bootstrap
\* script of a page rendered on the server from the Store d
Hydrate(d, page) ==
  /\ data = d
  /\ handlers = page.handlers
  /\ triggers = page.triggers
  /\ hrec = [h \in HandlerIds |->
               LET e == IF h = "t1" THEN "e1" ELSE h
                   listed == IF h = "t1" THEN page.triggers # EmptyMap
                             ELSE PageBinding(page, h) # {}
               IN IF listed
                    THEN [element |-> e, property |-> "textContent", func |-> "value"]
                    ELSE NoHandler]
  /\ rendered = {"html", "head", "body"} \cup page.els
  /\ parent = [n \in Nodes |-> IF n \in {"head", "body"} THEN "html"
                                ELSE IF n \in page.els THEN "body" ELSE NoNode]
  /\ decl = [e \in Elements |->
               IF PageBinding(page, e) # {}
                 THEN [binding |-> CHOOSE b \in PageBinding(page, e) : TRUE,
                       triggers |-> IF page.triggers # EmptyMap THEN <<T_b>> ELSE <<>>]
                 ELSE [binding |-> <<>>, triggers |-> <<>>]]
  /\ text = [e \in Elements |->
               IF decl[e].binding # <<>>
                 THEN Evaluate("value", Get(d, decl[e].binding)) ELSE Str("")]
  /\ pending = <<>>
  /\ last = NoCall
  /\ nops = 0
  /\ elementHandlerMap = [e \in Elements |-> {}]
  /\ delegate = page.delegate
  /\ listeners = EnableEventDelegation(page.delegate, KindsOf(page.delegate))
  /\ disabled = {}
  /\ observing = \E k \in DOMAIN page.delegate : IsValidMutation(k)
  /\ gcTimer = FALSE
  /\ edecl = [n \in EventNodes |->
                IF n \in page.els
                  THEN Tpl(n, SeededKeys(page.delegate, n, KindsOf(page.delegate)),
                           "body", FALSE)
                  ELSE NoTpl]
  /\ importCache = FALSE
  /\ attempts = 0
  /\ hpipe = [h \in HandlerIds |-> IF h \in page.pipes THEN "import" ELSE "none"]
  /\ idleq = QueuedPipes(page)
  /\ loading = {}
  /\ stashedLoadEvent = NoStash
  /\ polls = <<>>
  /\ loadCalls = [n \in EventNodes |-> 0]
  /\ NoPasses
  /\ NoObjekt

\* ------------------------------------------------------ event delegation
EventTemplates ==
  {Tpl("root", <<Fun("click")>>, "detached", FALSE),
   Tpl("root", <<Fun("click")>>, "detached", TRUE),
   Tpl("root", <<Fun("childList")>>, "body", FALSE),
   Tpl("e1", <<Fun("clickOutside")>>, "body", FALSE),
   Tpl("e1", <<Fun("keydown:Enter"), Fun("keydown:Escape")>>, "body", FALSE),
   Tpl("e1", <<Fun("keydown"), Fun("keydown:Enter")>>, "body", FALSE),
   Tpl("e1", <<[key |-> "click", func |-> "fnThrows", opt |-> NoOpt]>>, "body", FALSE),
   Tpl("e1", <<FunPipe("click")>>, "body", FALSE),
   Tpl("e2", <<FunPrevent("clickOutside")>>, "body", FALSE),
   Tpl("e2", <<Fun("click")>>, "body", FALSE),
   Tpl("e2", <<Fun("clickOutside")>>, "body", FALSE),
   Tpl("root", <<Fun("keypress")>>, "body", FALSE),
   Tpl("root", <<Fun("load")>>, "detached", FALSE),
   Tpl("e2", <<Fun("load")>>, "body", FALSE)}

InitEvents ==
  \E page \in {NoPayload, BoundPayload, ClickPayload, AttrPayload} :
    Hydrate(EmptyObj, page)

NextEvents ==
  \/ \E tpl \in EventTemplates : RenderEvents(tpl)
  \/ Insert("root")
  \/ \E n \in Nodes \ {"html", "head"} : Click(n)
  \/ \E key \in {"Enter", "Escape"} : KeyDown(key, "e1")
  \/ \E code \in KeyCodes : KeyPress(code, "e2")
  \/ \E n \in {"body", "root", "e1", "e2"}, added \in BOOLEAN : ChildListChange(n, added)
  \/ \E n \in {"e1", "e2"}, name \in {"class", "id"} : AttributeChange(n, name)
  \/ GarbageCollect
  \/ \E n \in {"root", "e1", "e2"} : DestroyNode(n)
  \/ \E i \in 1..3 : PollTick(i)
  \/ \E i \in 1..3 : PollTimeout(i)

SpecEvents == InitEvents /\ [][NextEvents]_vars

\* ------------------------------------------------ bound nodes, hydrated
NodeSetArgs == {B_a, B_ab, B_a0} \X {Str("x"), Str("y")}
NodeTemplates == {Tpl("root", <<Fun("click")>>, "detached", FALSE),
                  Tpl("e2", <<Fun("click")>>, "body", FALSE)}

InitNode ==
  \E d \in {EmptyObj, Rec1("a", Str("x"))},
     page \in {NoPayload, BoundPayload, TriggerPayload} :
    Hydrate(d, page)

NextNode ==
  \/ \E a \in NodeSetArgs : Set(a[1], a[2])
  \/ \E a \in RenderArgs : Render(a[1], a[2], a[3], a[4])
  \/ \E tpl \in NodeTemplates : RenderEvents(tpl)
  \/ Insert("root")
  \/ \E n \in {"root", "e1", "e2"} : DestroyNode(n)
  \/ \E b \in {B_a, B_ab} : Destroy(b)
  \/ Resume(1)

SpecNode == InitNode /\ [][NextNode]_vars

\* ------------------------------------------------------ import resolution
\* processUnimportedPipes(deadline): one turn of its while loop, which
\* starts #resolvePipeImports for the pipe at the head of the queue
IdleImport ==
  /\ idleq # <<>>
  /\ idleq' = Tail(idleq)
  /\ LET h == Head(idleq)
         starts == hpipe[h] = "import" /\ ~importCache
     IN /\ attempts' = IF starts THEN attempts + 1 ELSE attempts
        /\ loading' = IF starts THEN loading \cup {h} ELSE loading
        /\ hpipe' = IF hpipe[h] = "import" /\ importCache
                      THEN [hpipe EXCEPT ![h] = "component"] ELSE hpipe
        /\ last' = [NoCall EXCEPT !.op = "idle", !.h = h]
  /\ UNCHANGED <<data, handlers, triggers, hrec, rendered, parent, text,
                 pending, decl, nops, elementHandlerMap, evars, importCache, lvars, svars, ovars>>

\* the import(path) of a queued pipe settles: #resolvePipeImports after
\* its await
LoadDone(h, ok) ==
  /\ h \in loading
  /\ loading' = loading \ {h}
  /\ importCache' = (importCache \/ ok)
  /\ hpipe' = [hpipe EXCEPT ![h] = IF ok THEN "component" ELSE "null"]
  /\ last' = [NoCall EXCEPT !.op = "loaded", !.h = h]
  /\ UNCHANGED <<data, handlers, triggers, hrec, rendered, parent, text,
                 pending, decl, nops, elementHandlerMap, evars, attempts, idleq, lvars, svars, ovars>>

ImportSetArgs == {B_a, B_ab} \X {Str("x"), Str("y")}

InitImport ==
  \E d \in {EmptyObj, Rec1("a", Str("x"))} : Hydrate(d, ImportPayload)

NextImport ==
  \/ \E a \in ImportSetArgs : Set(a[1], a[2])
  \/ \E i \in 1..2 : Resume(i)
  \/ IdleImport
  \/ \E h \in {"e1", "e2"}, ok \in BOOLEAN : LoadDone(h, ok)
  \/ \E n \in {"e1", "e2"} : DestroyNode(n)
  \/ \E b \in {B_a, B_ab} : Destroy(b)
  \/ \E tpl \in NodeTemplates : RenderEvents(tpl)
  \/ Insert("root")

SpecImport == InitImport /\ [][NextImport]_vars

\* ------------------------------------------------------- render passes
\* update on a page with bound elements
NextUpdate ==
  \/ \E a \in UpdateArgs : Update(a[1], a[2])
  \/ \E a \in RenderArgs : Render(a[1], a[2], a[3], a[4])
  \/ Resume(1)

SpecUpdate == Init /\ [][NextUpdate]_vars

\* a list: an element whose children handler renders a bound child with a
\* click delegate and a bound grandchild, on a page with or without a
\* running observer
ListSetArgs == {B_a, B_ab} \X {Str("x"), Str("y")}

InitList ==
  \E d \in {EmptyObj, Rec1("a", Rec1("b", Str("x")))},
     page \in {NoPayload, WatchPayload} :
    Hydrate(d, page)

NextList ==
  \/ RenderList
  \/ \E a \in ListSetArgs : Set(a[1], a[2])
  \/ Resume(1)
  \/ \E n \in ListNodes : Click(n)
  \/ GarbageCollect

SpecList == InitList /\ [][NextList]_vars

\* the earlier generation (objekt.js) on the client: a hook with an
\* endpoint, one template, local sets and the sync round trips
OSetArgs ==
  {<<B_abc, Str("y")>>, <<B_abc, Str("")>>, <<B_ab, Str("z")>>,
   <<B_ab, Rec1("c", Str("x"))>>, <<B_ab, Rec1("c", Str(""))>>}

InitObjekt == Hydrate(EmptyObj, NoPayload)

NextObjekt ==
  \/ OSetDataCall("a", Rec1("b", Rec1("c", Str("x"))))
  \/ ORender
  \/ \E a \in OSetArgs : OSet(a[1], a[2])
  \/ \E b \in {B_a, B_abc} : SyncTimeout(b)
  \/ \E b \in {B_a, B_abc}, ok \in BOOLEAN, v \in {Str("y"), Str("x")} :
       SyncResponse(b, ok, v)

SpecObjekt == InitObjekt /\ [][NextObjekt]_vars

InitServer == Hydrate(EmptyObj, NoPayload)

NextServer ==
  \/ \E p \in Passes, view \in Views, user \in Users : RenderViewStart(p, view, user)
  \/ \E p \in Passes : SetProp(p)
  \/ \E p \in Passes : RenderPass(p)

SpecServer == InitServer /\ [][NextServer]_vars

TypeOK == data.t = "obj" /\ nops <= MaxOps

\* ----------------------------------------------------------------- claims
\* the number of #handle calls for handler h among the calls cs
Count(h, cs) == Cardinality({i \in 1..Len(cs) : cs[i].h = h})
RegisteredAt(h, P) == \E i \in 1..Len(At(handlers, P)) : handlers[P][i] = h
IsProperPrefix(B, Q) == Len(B) < Len(Q) /\ SubSeq(Q, 1, Len(B)) = B
\* the absolute trigger paths declared on the element of handler h
TriggerPaths(h) ==
  {decl[h].binding \o decl[h].triggers[j] : j \in 1..Len(decl[h].triggers)}

\* set was called with a non-empty binding and a value other than undefined
ValidSet == last.op = "set" /\ last.b # <<>> /\ last.x.t # "undef"

\* C1 as stated: a set(Q, v) call invokes a handler registered at P exactly
\* once if P = Q and not at all if P # Q.
C1_ExactPathAsStated ==
  ValidSet =>
    \A P \in DOMAIN handlers : \A h \in Elements :
      RegisteredAt(h, P) =>
        Count(h, last.started) = IF P = last.b THEN 1 ELSE 0

\* C1 amended: a set(Q, v) call that is rejected (a proper prefix of Q
\* holds a truthy non-object, or the arguments are invalid) invokes no
\* handler; a set(Q, v) call that succeeds invokes a handler registered at P
\* exactly once if P = Q, exactly once if Q is P + "." + T for a trigger T
\* declared with the handler, and not at all otherwise: no other parent or
\* child path of P invokes it.
C1_ExactPathOrTrigger ==
  last.op = "set" =>
    \A P \in DOMAIN handlers : \A h \in Elements :
      RegisteredAt(h, P) =>
        Count(h, last.started) =
          IF last.err # "none" THEN 0
          ELSE IF P = last.b \/ last.b \in TriggerPaths(h) THEN 1
          ELSE 0

\* a successful set("a.b", v) has invoked the handler bound to "a.b" once
\* and has not invoked the trigger-less handler bound to its parent "a"
C1_Witness ==
  /\ last.op = "set" /\ last.err = "none" /\ last.b = B_ab
  /\ RegisteredAt("e2", B_ab) /\ Count("e2", last.started) = 1
  /\ RegisteredAt("e1", B_a) /\ decl["e1"].triggers = <<>>
  /\ Count("e1", last.started) = 0

\* C2 as stated: for a handler H registered at B with declared trigger T,
\* set(B.T, x) invokes H exactly once, on the value of B; set on another
\* sub-path of B does not invoke H; the evaluator receives get(B).
C2_TriggerAsStated ==
  /\ ValidSet =>
       \A h \in Elements :
         (RegisteredAt(h, decl[h].binding) /\ IsProperPrefix(decl[h].binding, last.b)) =>
           IF last.b \in TriggerPaths(h)
             THEN /\ Count(h, last.started) = 1
                  /\ \A i \in 1..Len(last.started) :
                       last.started[i].h = h => last.started[i].binding = decl[h].binding
             ELSE Count(h, last.started) = 0
  /\ last.op = "handle" => last.x = Get(data, decl[last.h].binding)

\* C2 amended: for a handler H registered at B with declared trigger T, a
\* set(B.T, x) call that succeeds invokes H exactly once, and a rejected one
\* does not invoke it; every invocation of H hands its evaluator get(B) as
\* it is when the evaluator runs; set on a sub-path of B that is not a
\* declared trigger does not invoke H.
C2_Trigger ==
  /\ last.op = "set" =>
       \A h \in Elements :
         (RegisteredAt(h, decl[h].binding) /\ IsProperPrefix(decl[h].binding, last.b)) =>
           IF last.b \in TriggerPaths(h) /\ last.err = "none"
             THEN /\ Count(h, last.started) = 1
                  /\ \A i \in 1..Len(last.started) :
                       last.started[i].h = h => last.started[i].binding = decl[h].binding
             ELSE Count(h, last.started) = 0
  /\ last.op = "handle" => last.x = Get(data, decl[last.h].binding)

\* a successful set("a.b", "x") has started the handler bound to "a" with
\* trigger "b", to be run on "a", whose value is not "x"
C2_Witness ==
  /\ last.op = "set" /\ last.err = "none" /\ last.b = B_ab /\ last.x = Str("x")
  /\ RegisteredAt("e1", B_a) /\ B_ab \in TriggerPaths("e1")
  /\ last.started = <<[binding |-> B_a, h |-> "e1"]>>
  /\ Get(data, B_a) # Str("x")

\* the value reached from d through own properties of containers only
\* (Undef when a key is missing or the path runs through a scalar)
RECURSIVE Own(_, _)
Own(d, keys) ==
  IF keys = <<>> THEN d
  ELSE IF d.t \in {"obj", "arr"} /\ Head(keys) \in DOMAIN d.v
    THEN Own(d.v[Head(keys)], Tail(keys))
  ELSE Undef

\* C3 as stated: get(P) on a path that holds no value returns "" and never
\* undefined.
C3_GetDefault ==
  last.op = "get" =>
    /\ last.ret.t # "undef"
    /\ Own(data, Split(last.b)).t = "undef" => last.ret = DefaultType

\* C4 as stated: after a set(P, v) that succeeds, get(P) returns v.
C4_SetThenGet ==
  (ValidSet /\ last.err = "none") => Get(data, last.b) = last.x

\* the elements of array a at the indices below n are those of array b
SameBelow(a, b, n) ==
  \A i \in 0..(n - 1) : Prop(a, IndexKey(i)) = Prop(b, IndexKey(i))

\* C5 as stated: push(P, v) on the unset default leaves get(P) = [v]; on an
\* array it appends v; on any other value it logs an error, leaves the Store
\* unchanged and invokes no handler.
C5_Push ==
  [][(last'.op = "push" /\ last'.b # <<>> /\ last'.x.t # "undef") =>
       LET old == Get(data, last'.b)
           new == Get(data', last'.b)
       IN IF old = DefaultType THEN new = Arr(<<last'.x>>)
          ELSE IF IsArray(old)
            THEN /\ IsArray(new) /\ ArrLen(new) = ArrLen(old) + 1
                 /\ Prop(new, IndexKey(ArrLen(old))) = last'.x
                 /\ SameBelow(new, old, ArrLen(old))
          ELSE last'.err = "error" /\ data' = data /\ last'.started = <<>>
    ]_vars

\* every field of query is a field of element with the same value
FieldsEqual(element, query) ==
  \A k \in DOMAIN query.v :
    element.t \notin {"undef", "null"} /\ StrictEq(Prop(element, k), query.v[k])
\* the indices of the elements of array a that match query
Matches(a, query) ==
  {i \in 0..(ArrLen(a) - 1) : FieldsEqual(Prop(a, IndexKey(i)), query)}
Min(S) == CHOOSE i \in S : \A j \in S : i <= j

\* C6 as stated: setInArray(P, query, value) on an array replaces exactly
\* the first matching element (length and the other elements unchanged) or,
\* without a match, appends value.
C6_SetInArray ==
  [][(last'.op = "setInArray" /\ IsArray(Get(data, last'.b))) =>
       LET old == Get(data, last'.b)
           new == Get(data', last'.b)
           M == Matches(old, last'.q)
           i == IF M # {} THEN Min(M) ELSE ArrLen(old)
       IN /\ IsArray(new)
          /\ ArrLen(new) = IF M # {} THEN ArrLen(old) ELSE ArrLen(old) + 1
          /\ Prop(new, IndexKey(i)) = last'.x
          /\ \A j \in 0..(ArrLen(old) - 1) :
               j # i => Prop(new, IndexKey(j)) = Prop(old, IndexKey(j))
    ]_vars

\* C7 as stated: pull(P, query) on an array removes exactly the first
\* matching element, keeps the others in order and notifies P; without a
\* match it only warns, changes nothing and invokes no handler.
C7_Pull ==
  [][(last'.op = "pull" /\ IsArray(Get(data, last'.b))) =>
       LET old == Get(data, last'.b)
           new == Get(data', last'.b)
           M == Matches(old, last'.q)
       IN IF M # {}
            THEN /\ IsArray(new) /\ ArrLen(new) = ArrLen(old) - 1
                 /\ SameBelow(new, old, Min(M))
                 /\ \A j \in Min(M)..(ArrLen(new) - 1) :
                      Prop(new, IndexKey(j)) = Prop(old, IndexKey(j + 1))
                 /\ \A h \in Elements :
                      RegisteredAt(h, last'.b) => Count(h, last'.started) = 1
            ELSE last'.err = "warn" /\ data' = data /\ last'.started = <<>>
    ]_vars

\* the scalar and array leaves of a partial object, with their key paths
RECURSIVE LeavesOf(_, _)
LeavesOf(obj, prefix) ==
  UNION {IF obj.v[k].t = "obj"
           THEN LeavesOf(obj.v[k], Append(prefix, k))
           ELSE {[p |-> Append(prefix, k), x |-> obj.v[k]]} : k \in DOMAIN obj.v}

\* every key of old that partial does not name is in new with its value,
\* at every nesting level
RECURSIVE Kept(_, _, _)
Kept(old, new, partial) ==
  old.t \in {"obj", "arr"} =>
    \A k \in DOMAIN old.v :
      IF k \notin DOMAIN partial.v
        THEN new.t \in {"obj", "arr"} /\ k \in DOMAIN new.v /\ new.v[k] = old.v[k]
      ELSE IF partial.v[k].t = "obj"
        THEN Kept(old.v[k], Prop(new, k), partial.v[k])
      ELSE TRUE

\* some proper prefix of the path holds a truthy non-object
Blocked(d, keys) ==
  \E n \in 1..(Len(keys) - 1) :
    LET v == Own(d, SubSeq(keys, 1, n)) IN ~Falsy(v) /\ ~TypeofObject(v)

UpdateCalled == last'.op = "update" /\ last'.b # <<>> /\ last'.x.t = "obj"

\* C8 as stated: update(P, partial) sets every scalar or array leaf of
\* partial at P.<key path> and keeps every key under P that partial does not
\* name.
C8_UpdateAsStated ==
  [][UpdateCalled =>
       /\ \A lf \in LeavesOf(last'.x, <<>>) :
            Own(data', Split(last'.b) \o lf.p) = lf.x
       /\ Kept(Own(data, Split(last'.b)), Own(data', Split(last'.b)), last'.x)
    ]_vars

\* C8 amended: update(P, partial) sets every scalar or array leaf of partial
\* at P.<key path>, except the leaves whose path has a proper prefix holding
\* a truthy non-object: for those an error is logged and the value at the
\* path stays as it was; every key under P that partial does not name, at
\* every nesting level, keeps its previous value.
C8_Update ==
  [][UpdateCalled =>
       /\ \A lf \in LeavesOf(last'.x, <<>>) :
            LET path == Split(last'.b) \o lf.p IN
            IF Blocked(data, path)
              THEN Own(data', path) = Own(data, path) /\ last'.err = "error"
              ELSE Own(data', path) = lf.x
       /\ Kept(Own(data, Split(last'.b)), Own(data', Split(last'.b)), last'.x)
    ]_vars

\* update("a", {b: "y"}) on {a: {b: "x", c: "y"}} has set a.b and kept a.c
C8_Witness ==
  /\ last.op = "update" /\ last.err = "none"
  /\ last.b = B_a /\ last.x = Rec1("b", Str("y"))
  /\ data = Rec1("a", Rec2("b", Str("y"), "c", Str("y")))

\* C9 as stated: update(P, partial) with a non-empty partial object re-runs
\* the handlers registered exactly at P.
C9_UpdateNotifies ==
  (last.op = "update" /\ last.err = "none" /\ last.x.t = "obj"
     /\ DOMAIN last.x.v # {}) =>
    \A h \in Elements : RegisteredAt(h, last.b) => Count(h, last.started) >= 1

\* C10 as stated, for the state right after destroy(P): no handler is left
\* at P, get(P) returns the default, and every element referenced by the
\* handlers that were registered at P has no parent.
C10_Destroy ==
  [][(last'.op = "destroy" /\ last'.b # <<>>) =>
       /\ At(handlers', last'.b) = <<>>
       /\ Get(data', last'.b) = DefaultType
       /\ \A i \in 1..Len(At(handlers, last'.b)) :
            LET el == hrec[handlers[last'.b][i]].element IN
            el # NoNode => parent'[el] = NoNode
    ]_vars

\* n is element or one of its descendants
Within(par, element, n) == n \in Nodes /\ Contains(par, element, n)

\* C11 as stated: destroy(node) removes the node from its parent and leaves
\* no handler record and no delegate record that refers to the node or to
\* one of its descendants.
C11_DestroyNode ==
  [][last'.op = "destroyNode" =>
       LET element == last'.t IN
       /\ parent'[element] = NoNode
       /\ \A b \in DOMAIN handlers' : \A i \in 1..Len(handlers'[b]) :
            ~Within(parent, element, hrec[handlers'[b][i]].element)
       /\ \A k \in DOMAIN delegate' : \A i \in 1..Len(delegate'[k]) :
            ~Within(parent, element, delegate'[k][i].target.n)
    ]_vars

\* the element a handler object was made for
ElementOf(h) == IF h = "t1" THEN "e1" ELSE h
\* the invocations in cs of handlers made for element e
CountEl(e, cs) == Cardinality({i \in 1..Len(cs) : ElementOf(cs[i].h) = e})
\* the engine was constructed from the payloads of a server render
Hydrated == elementHandlerMap["e1"] = {} /\ hrec["e1"].element = "e1"

HasKey(n, key) == \E i \in 1..Len(edecl[n].keys) : edecl[n].keys[i].key = key
\* the calls of the last event to the function declared on n under key
CallsOf(n, key) == SelectSeq(last.calls, LAMBDA c : c.id = <<n, key>>)
\* one call, with node m as the matched target
OneCall(n, key, m) == CallsOf(n, key) = <<[id |-> <<n, key>>, match |-> m]>>

\* C13 as stated: a click delegate registered for an element that was not
\* yet in the document is, once the element has been inserted, invoked
\* exactly once for a click on the element or on a descendant of it, with
\* the element as the matched target (the element is not disabled and no
\* other delegate fails during the dispatch).
C13_ClickAfterInsert ==
  (/\ last.op = "click" /\ last.err = "none"
   /\ edecl["root"].where = "detached" /\ HasKey("root", "click")
   /\ ~edecl["root"].dis
   /\ Contains(parent, "root", last.t))
    => OneCall("root", "click", "root")

\* C14 as stated: a clickOutside delegate declared on element e1 is invoked
\* for a click exactly when the target of the click is neither e1 nor a
\* descendant of e1.
C14_ClickOutside ==
  (/\ last.op = "click" /\ last.err = "none"
   /\ HasKey("e1", "clickOutside")
   /\ Contains(parent, "body", "e1"))
    => (CallsOf("e1", "clickOutside") # <<>> <=> ~Contains(parent, "e1", last.t))

\* C15 as stated: when an invocation reaches a handler record whose node
\* cannot be resolved or is not in the live tree, the record is removed from
\* its list and nothing is applied to any node.
C15_PruneOnAccess ==
  [][(/\ last'.op = "handle"
      /\ LET el == ResolveHandler(parent, last'.h) IN
           el = NoNode \/ ~Contains(parent, "body", el))
       => /\ \A i \in 1..Len(At(handlers', last'.b)) :
               handlers'[last'.b][i] # last'.h
          /\ text' = text
    ]_vars

\* #delegate holds the record of the function declared on n under key
HasRecord(n, key) ==
  \E i \in 1..Len(At(delegate, key)) : delegate[key][i].id = <<n, key>>
\* the function in that record is a function or the text of one that
\* #parseStringifiedFunction accepts
Resolvable(n, key) ==
  \A i \in 1..Len(At(delegate, key)) :
    delegate[key][i].id = <<n, key>> => delegate[key][i].func # "srcBare"

\* C16 as stated: whatever happens to the other delegates of a click (a
\* function that throws, a function text that cannot be resolved), every
\* click delegate whose own function can be resolved, whose element contains
\* the target of the click and is not disabled, is invoked.
C16_Isolation ==
  last.op = "click" =>
    \A n \in EventNodes :
      (/\ HasKey(n, "click") /\ HasRecord(n, "click") /\ Resolvable(n, "click")
       /\ n \notin disabled
       /\ Contains(parent, "body", n) /\ Contains(parent, n, last.t))
        => OneCall(n, "click", n)

\* C17 as stated: import(path) is called at most once for the locator
\* during the lifetime of the instance.
C17_ImportOnce == attempts <= 1

\* C18 as stated: no two native listeners were added for the same event
\* kind, and the keydown:<Key> kinds share one native keydown listener.
C18_Listeners ==
  /\ \A i, j \in 1..Len(listeners) : listeners[i] = listeners[j] => i = j
  /\ Cardinality({i \in 1..Len(listeners) :
                    listeners[i].type = "keydown" /\ listeners[i].key # ""}) <= 1

\* the handler of element e is registered at binding b
Registered(hmap, b, e) ==
  \E i \in 1..Len(At(hmap, b)) : ElementOf(hmap[b][i]) = e

\* C19 as stated: an invocation that resumes after destroy has removed the
\* handler of its node applies nothing to any node.
C19_ResumeAfterDestroy ==
  [][(/\ last'.op = "handle"
      /\ ~Registered(handlers, last'.b, ElementOf(last'.h)))
       => (~last'.wrote /\ text' = text)
    ]_vars

\* C20 as stated: while the observer runs, a childList delegate declared on
\* node N is invoked, with N as its target, when a child of N is added and
\* when a child of N is removed, and a change of the children of another
\* node does not invoke it.
C20_ChildList ==
  (last.op \in {"childAdded", "childRemoved"} /\ observing) =>
    \A n \in EventNodes :
      (HasKey(n, "childList") /\ HasRecord(n, "childList")
       /\ Resolvable(n, "childList"))
        => IF n = last.t THEN OneCall(n, "childList", n)
           ELSE CallsOf(n, "childList") = <<>>

\* C21 as stated: while the observer runs, a delegate declared on N under
\* attributes is invoked on every change of an attribute of N, and one
\* declared under attributes:class exactly on the changes of class.
C21_Attributes ==
  (last.op = "attributeChanged" /\ observing) =>
    \A n \in EventNodes :
      /\ (HasKey(n, "attributes") /\ HasRecord(n, "attributes")
          /\ Resolvable(n, "attributes") /\ n = last.t)
           => OneCall(n, "attributes", n)
      /\ (HasKey(n, "attributes:class") /\ HasRecord(n, "attributes:class")
          /\ Resolvable(n, "attributes:class"))
           => IF n = last.t /\ last.key = "class"
                THEN OneCall(n, "attributes:class", n)
                ELSE CallsOf(n, "attributes:class") = <<>>

\* C22 as stated: the load function declared on a node in a client render
\* is called at most once.
C22_LoadOnce == \A n \in EventNodes : loadCalls[n] <= 1

RECURSIVE SetAll(_, _, _)
\* the instance after the props were set in order, nothing else running
SetAll(m, props, user) ==
  IF props = <<>> THEN m
  ELSE SetAll(Handledata(m, Head(props), user), Tail(props), user)

\* what pass p serializes when it runs alone on a new instance
Alone(p) ==
  ServerRender(SetAll(NewMateria, PropsOf(pass[p].view, pass[p].user), pass[p].user),
               pass[p].view, <<p, ViewElement(pass[p].view)>>)

\* C23: whatever the interleaving of the render passes, the Store snapshot
\* and the handler, trigger and delegate tables in the response of a pass
\* are those of that pass running alone on its own instance.
C23_PassIsolation ==
  \A p \in Passes : pass[p].pc = "done" => response[p] = Alone(p)

\* two passes for different users and views have both answered, and each
\* ran while the other was between two of its awaits
C23_Witness ==
  /\ \A p \in Passes : pass[p].pc = "done" /\ pass[p].overlap
  /\ pass[1].user = "alice" /\ pass[2].user = "bob"
  /\ pass[1].view # pass[2].view
  /\ response[1].data # response[2].data

\* the number of records in a registry
RECURSIVE Total(_, _)
Total(map, ks) ==
  IF ks = {} THEN 0
  ELSE LET k == CHOOSE x \in ks : TRUE IN Len(map[k]) + Total(map, ks \ {k})
Records(map) == Total(map, DOMAIN map)

\* C24: a re-run of the children handler of the list, which replaces the
\* child and the grandchild rendered before by newly rendered ones, leaves
\* the number of handler records and the number of delegate records as they
\* were before the re-run (and so as they were after the first render)
C24_NoGrowth ==
  [][(last'.op = "handle" /\ Gen(rendered') > Gen(rendered))
       => /\ Records(handlers') = Records(handlers)
          /\ Records(delegate') = Records(delegate)]_vars


\* a record's node is attached to the live document: the element of a
\* handler record, the target of a delegate record (the document itself for
\* a clickOutside delegate)
HandlerAttached(h) ==
  hrec[h].element # NoNode /\ Contains(parent, "html", hrec[h].element)
DelegateAttached(dg) ==
  \/ dg.target.n = Document
  \/ LET n == ResolveTarget(parent, dg.target) IN
       n \in Nodes /\ Contains(parent, "html", n)
Holds(seq, x) == \E i \in 1..Len(seq) : seq[i] = x

\* C25: a sweep or a handler invocation removes no handler record and no
\* delegate record whose node is attached to the live document
C25_AttachedKept ==
  [][last'.op \in {"gc", "handle"}
       => /\ \A b \in DOMAIN handlers : \A i \in 1..Len(handlers[b]) :
               HandlerAttached(handlers[b][i])
                 => Holds(handlers'[b], handlers[b][i])
          /\ \A k \in DOMAIN delegate : \A i \in 1..Len(delegate[k]) :
               DelegateAttached(delegate[k][i])
                 => Holds(delegate'[k], delegate[k][i])]_vars

\* C26: while the observer runs, every batch of mutations of a node in the
\* body (a child addition, a child removal or an attribute change) leaves
\* the debounce timer of the sweep armed, so that a sweep follows the burst
C26_SweepFollows ==
  [][(observing /\ last'.op \in {"childAdded", "childRemoved", "attributeChanged"})
       => gcTimer']_vars

\* a proper prefix of the path holds a string, a number or a boolean
ScalarPrefix(d, keys) ==
  \E n \in 1..(Len(keys) - 1) :
    Own(d, SubSeq(keys, 1, n)).t \in {"str", "num", "bool"}

\* C27: set(P, v) with a scalar at a proper prefix of P logs an error,
\* leaves the Store as it was and starts no handler
C27_ScalarPrefix ==
  [][(last'.op = "set" /\ last'.x.t # "undef" /\ ScalarPrefix(data, Split(last'.b)))
       => /\ last'.err = "error"
          /\ data' = data
          /\ last'.started = <<>>]_vars

\* C28: when the evaluator of a handler returns null, at the invocation
\* during render or at a later invocation of the handler, no target
\* property of any node changes
C28_NullLeaves ==
  [][(/\ last'.op \in {"render", "handle"}
      /\ last'.h \in HandlerIds
      /\ Evaluate(hrec'[last'.h].func, last'.x) = Null)
       => text' = text]_vars

\* C29: a keypress with key code 13 invokes every click delegate whose
\* element contains the target of the event exactly once, whether or not a
\* keypress delegate has been registered, and a keypress with another key
\* code invokes no click delegate (the delegate's record is in the
\* registry, its function can be resolved, its element is in the body and
\* not disabled, and no delegate fails during the dispatch)
C29_EnterIsClick ==
  (last.op = "keypress" /\ last.err = "none") =>
    \A n \in EventNodes :
      (/\ HasKey(n, "click") /\ HasRecord(n, "click") /\ Resolvable(n, "click")
       /\ n \notin disabled
       /\ Contains(parent, "body", n) /\ Contains(parent, n, last.t))
        => IF last.key = EnterCode
             THEN OneCall(n, "click", n)
             ELSE CallsOf(n, "click") = <<>>

\* C30: in the dispatch of an event, preventDefault() is called for every
\* delegate that was invoked (it matched and its node is not disabled) and
\* whose key its template lists in preventDefault, and it is called before
\* the dispatch first suspends; it is called for no delegate that did not
\* match or whose matched node is disabled
C30_PreventDefault ==
  (last.op \in {"click", "keydown", "keypress"} /\ last.err = "none") =>
    /\ \A n \in EventNodes : \A i \in 1..Len(edecl[n].keys) :
         LET k == edecl[n].keys[i] IN
         (k.opt.preventDefault /\ CallsOf(n, k.key) # <<>>)
           => \E j \in 1..Len(last.prevented) :
                last.prevented[j].id = <<n, k.key>> /\ ~last.prevented[j].late
    /\ \A j \in 1..Len(last.prevented) :
         LET m == last.prevented[j].match IN
         /\ m \notin disabled
         /\ m = Document \/ Contains(parent, m, last.t)

\* C31: when the import(path) of a queued pipe fails, the pipe holds null
\* and the pipe is put back on the queue of pending imports, so that its
\* load is attempted a second time before it is dropped
C31_RetryOnce ==
  [][(last'.op = "loaded" /\ hpipe'[last'.h] = "null")
       => \E i \in 1..Len(idleq') : idleq'[i] = last'.h]_vars

\* C32: outbound sync is suppressed exactly while a response of the server
\* is applied: the set that applies it arms no sync, and once that
\* application has ended, thrown or not, a local set that runs handlers of
\* a hook with an endpoint arms the sync of their binding.
C32_SyncResumes ==
  /\ olast.op = "response" => olast.synced = {}
  /\ (olast.op = "set" /\ olast.calls # <<>>
        /\ Head(Split(olast.b)) \in endpoints) => olast.synced # {}

C34_NoStaleTrigger ==
  last.op = "set" =>
    \A i \in 1..Len(last.started) :
      \E b \in DOMAIN handlers : \E j \in 1..Len(handlers[b]) :
        handlers[b][j] = last.started[i].h

\* C36: one successful push(P, v) or pushMany(P, values) starts each
\* handler registered exactly at P exactly once, whether P was unset or held
\* an array before, and starts none when it leaves the Store unchanged.
C36_PushOnce ==
  [][(last'.op \in {"push", "pushMany"} /\ last'.err = "none") =>
       \A h \in HandlerIds :
         RegisteredAt(h, last'.b) =>
           Count(h, last'.started) = IF data' = data THEN 0 ELSE 1]_vars

\* C37: in the dispatch of one native event no delegate record is invoked
\* more than once; in particular one keydown invokes a keydown or
\* keydown:<Key> delegate once, whichever keydown kinds are registered.
C37_OncePerEvent ==
  last.op \in {"click", "keydown", "keypress"} =>
    \A i, j \in 1..Len(last.calls) :
      last.calls[i].id = last.calls[j].id => i = j

\* C38: whenever #delegate holds a record of a mutation kind, registered by
\* hydration or by a render on the client, the structural observer is
\* running.
C38_ObserverRuns ==
  (\E k \in DOMAIN delegate : IsValidMutation(k) /\ delegate[k] # <<>>)
    => observing

\* C39: destroy(P) returns without throwing for every path P, also when an
\* intermediate segment of P is missing or holds a scalar, and it leaves no
\* handler registered at P.
C39_DestroyTotal ==
  last.op = "destroy" =>
    /\ last.err # "throw"
    /\ At(handlers, last.b) = <<>>

\* no #handle call of handler h is suspended
Settled(h) == \A i \in 1..Len(pending) : pending[i].h # h
\* what the evaluator of handler h returns for the Store as it is
Shown(h) == TextNode(Evaluate(hrec[h].func, Get(data, decl[h].binding)))

====
